---- MODULE Spec2Model ----
(***************************************************************************)
(* Verification model of the voxel-space and wave-function-collapse core   *)
(* of domostroj: crates/baustein (indices, dense padded cuboid) and        *)
(* crates/wfc_3d (extent, stamp, superposition, wave), plus the StepOne    *)
(* collapse step of src/generate/mod.rs.                                   *)
(***************************************************************************)
EXTENDS Integers, Naturals, Sequences, FiniteSets, TLC

VARIABLES
    cub,        \* FlatPaddedGridCuboid<u8, CubShape>: [data, offset]
    cubRes,     \* result of the last cuboid call: "none", "Ok", "OutOfBounds"
    cubOp,      \* the last cuboid call: [index, value]
    cubWritten, \* history: index -> last value a successful set wrote there
    cubPrev,    \* history: the cuboid before the last call
    cubCalls    \* number of set calls made so far

cubVars == <<cub, cubRes, cubOp, cubWritten, cubPrev, cubCalls>>


-----------------------------------------------------------------------------
(* Index algebra: Index and VoxelUnits are i32 triples.                     *)

IndexAdd(a, b) == <<a[1] + b[1], a[2] + b[2], a[3] + b[3]>>

IndexSub(a, b) == <<a[1] - b[1], a[2] - b[2], a[3] - b[3]>>

Ones == <<1, 1, 1>>

-----------------------------------------------------------------------------
(* Shapes: ndshape's ConstShape3usize / RuntimeShape, x-fastest.            *)

ShapeSize(sh) == sh[1] * sh[2] * sh[3]

\* faulty variant: the stride of z computed from the x dimension
linearize_x_stride_twice(sh, p) == p[1] + sh[1] * (p[2] + sh[1] * p[3])

linearize(sh, p) == p[1] + sh[1] * (p[2] + sh[2] * p[3])

delinearize(sh, n) ==
    <<n % sh[1], (n \div sh[1]) % sh[2], n \div (sh[1] * sh[2])>>

-----------------------------------------------------------------------------
(* FlatPaddedGridCuboid<V, Shape>: a record [data, offset]; the Shape type  *)
(* parameter is passed as sh. data is the Vec, element n at data[n + 1].    *)

Cuboid_new(sh, offset, default) ==
    [data |-> [n \in 1..ShapeSize(sh) |-> default], offset |-> offset]

opposite_corner(sh, c) == IndexSub(IndexAdd(c.offset, sh), Ones)

\* faulty variant: the upper x bound taken one beyond the corner
contains_x_beyond(sh, c, index) ==
    LET opposite == opposite_corner(sh, c)
    IN  /\ c.offset[1] <= index[1] /\ index[1] <= opposite[1] + 1
        /\ c.offset[2] <= index[2] /\ index[2] <= opposite[2]
        /\ c.offset[3] <= index[3] /\ index[3] <= opposite[3]

contains(sh, c, index) ==
    IF index[1] < c.offset[1] \/ index[2] < c.offset[2] \/ index[3] < c.offset[3]
    THEN FALSE
    ELSE LET opposite == opposite_corner(sh, c)
         IN  IF index[1] > opposite[1] \/ index[2] > opposite[2]
                    \/ index[3] > opposite[3]
             THEN FALSE
             ELSE TRUE

\* Result of set: the cuboid afterwards and Ok / OutOfBounds.
Cuboid_set(sh, c, index, value) ==
    IF contains(sh, c, index)
    THEN LET offset == IndexSub(index, c.offset)
         IN  [c |-> [c EXCEPT !.data[linearize(sh, offset) + 1] = value],
              res |-> "Ok"]
    ELSE [c |-> c, res |-> "OutOfBounds"]

Cuboid_get(sh, c, index, default) ==
    IF contains(sh, c, index)
    THEN LET offset == IndexSub(index, c.offset)
         IN  c.data[linearize(sh, offset) + 1]
    ELSE default

get_beyond_opposite_corner(sh, c) == IndexAdd(c.offset, sh)

-----------------------------------------------------------------------------
(* Superposition<D>: a u64 mask, a set bit marks a disallowed id.           *)

FREE == 0

Pow2(n) == 2 ^ n

\* bit v of the mask m: (m >> v) & 1, one shift at a time
RECURSIVE BitOf(_, _)
BitOf(m, v) ==
    IF m = 0 THEN 0
    ELSE IF v = 0 THEN m % 2
    ELSE BitOf(m \div 2, v - 1)

\* (D as u64) << 2) - 1
impossible(D) == (D * 4) - 1

\* impossible() & !(1 << v)
only(D, v) ==
    LET imp == impossible(D)
    IN  IF BitOf(imp, v) = 1 THEN imp - Pow2(v) ELSE imp

allows(m, v) == BitOf(m, v) = 0

\* u64::count_ones
RECURSIVE count_ones(_)
count_ones(m) == IF m = 0 THEN 0 ELSE (m % 2) + count_ones(m \div 2)

\* count_allowed: D - count_ones() as u8, a u8 subtraction. Below zero it
\* panics where overflow is checked and wraps where it is not: the set of
\* the outcomes a build can produce.
count_allowed(D, m) ==
    LET ones == count_ones(m) % 256
    IN  IF D >= ones THEN {[panic |-> FALSE, value |-> D - ones]}
        ELSE {[panic |-> TRUE, value |-> 0],
              [panic |-> FALSE, value |-> D + 256 - ones]}

\* Masks of the model are below 2^MaskBits (impossible() of D <= 64 is).
MaskBits == 8

\* every bit set in a is set in b
MaskSubset(a, b) == \A k \in 0..(MaskBits - 1) : BitOf(a, k) = 1 => BitOf(b, k) = 1

-----------------------------------------------------------------------------
(* Extent: [start, end), empty as start = end = (0,0,0).                    *)

Extent_new(start, end) ==
    IF start[1] < end[1] /\ start[2] < end[2] /\ start[3] < end[3]
    THEN [start |-> start, end |-> end]
    ELSE [start |-> <<0, 0, 0>>, end |-> <<0, 0, 0>>]

Max(a, b) == IF a >= b THEN a ELSE b

Min(a, b) == IF a <= b THEN a ELSE b

\* Extent::iter with Iter::next: the indices in x-fastest order.
Extent_iter(x) ==
    LET sh == IndexSub(x.end, x.start)
    IN  [n \in 1..ShapeSize(sh) |-> IndexAdd(x.start, delinearize(sh, n - 1))]

\* faulty variant: the end of the first extent instead of the lower end
Extent_intersection_first_end(a, b) ==
    Extent_new(
        <<Max(a.start[1], b.start[1]), Max(a.start[2], b.start[2]),
          Max(a.start[3], b.start[3])>>,
        a.end)

Extent_intersection(a, b) ==
    Extent_new(
        <<Max(a.start[1], b.start[1]), Max(a.start[2], b.start[2]),
          Max(a.start[3], b.start[3])>>,
        <<Min(a.end[1], b.end[1]), Min(a.end[2], b.end[2]),
          Min(a.end[3], b.end[3])>>)

\* impl Stamped for Extent
Extent_get_stamps_extent(stampShape, x) ==
    Extent_new(x.start, IndexAdd(IndexSub(x.end, stampShape), Ones))

\* impl Stamped for FlatPaddedGridCuboid
Cuboid_get_stamps_extent(sh, stampShape, c) ==
    Extent_new(c.offset,
               IndexAdd(IndexSub(get_beyond_opposite_corner(sh, c), stampShape),
                        Ones))

\* faulty variant: only the window that starts at index
get_stamps_containing_from(stampShape, x, index) ==
    Extent_intersection(
        Extent_get_stamps_extent(stampShape, x),
        Extent_new(index, IndexAdd(index, Ones)))

\* faulty variant: the offsets around index, not clamped to the stamps-extent
get_stamps_containing_unclamped(stampShape, x, index) ==
    Extent_new(IndexAdd(IndexSub(index, stampShape), Ones),
               IndexAdd(index, Ones))

get_stamps_containing(stampShape, x, index) ==
    Extent_intersection(
        Extent_get_stamps_extent(stampShape, x),
        Extent_new(IndexAdd(IndexSub(index, stampShape), Ones),
                   IndexAdd(index, Ones)))

-----------------------------------------------------------------------------
(* Stamps. The environment e of a run carries the type parameters and the   *)
(* borrowed inputs: e.wave, e.stamp, e.src (shapes), e.D (palette size),    *)
(* e.source (the template cuboid) and e.stamps (the StampCollection, a      *)
(* sequence of [stamp, count]). A stamp is a ViewStamp on e.source, kept as *)
(* its offset.                                                              *)

\* ViewStamp::get on the template
Stamp_get(e, stamp, j) == Cuboid_get(e.src, e.source, IndexAdd(stamp, j), 0)

\* ViewStamp::get_samples on the template
Stamp_samples(srcShape, stampShape, source, offset) ==
    [n \in 1..ShapeSize(stampShape) |->
        Cuboid_get(srcShape, source,
                   IndexAdd(offset, delinearize(stampShape, n - 1)), 0)]

\* faulty variant: the first view of a content inserted but not counted
gather_stamps_first_uncounted(srcShape, stampShape, source) ==
    LET views == Extent_iter(Cuboid_get_stamps_extent(srcShape, stampShape, source))
        smp(k) == Stamp_samples(srcShape, stampShape, source, views[k])
        firsts == {k \in 1..Len(views) : \A m \in 1..(k - 1) : smp(m) # smp(k)}
    IN  {[stamp |-> views[k],
          count |-> Cardinality({m \in 1..Len(views) : smp(m) = smp(k)}) - 1]
            : k \in firsts}

\* gather_stamps with popcount: the HashMap, as the set of its entries. The
\* key an entry keeps is the first view of that content in extent order.
gather_stamps(srcShape, stampShape, source) ==
    LET views == Extent_iter(Cuboid_get_stamps_extent(srcShape, stampShape, source))
        smp(k) == Stamp_samples(srcShape, stampShape, source, views[k])
        firsts == {k \in 1..Len(views) : \A m \in 1..(k - 1) : smp(m) # smp(k)}
    IN  {[stamp |-> views[k],
          count |-> Cardinality({m \in 1..Len(views) : smp(m) = smp(k)})]
            : k \in firsts}

\* The orders in which iterating the HashMap can deliver a set of entries.
Orderings(S) ==
    {q \in [1..Cardinality(S) -> S] : \A x \in S : \E k \in DOMAIN q : q[k] = x}

get_total_occurrences(stamps) ==
    LET RECURSIVE sum(_)
        sum(k) == IF k = 0 THEN 0 ELSE stamps[k].count + sum(k - 1)
    IN  sum(Len(stamps))

\* ViewStamp::allows for the view of the wave cuboid c at index
ViewStamp_allows(e, c, index, stamp) ==
    \A i \in 0..(ShapeSize(e.stamp) - 1) :
        LET j == delinearize(e.stamp, i)
        IN  allows(Cuboid_get(e.wave, c, IndexAdd(index, j), FREE),
                   Stamp_get(e, stamp, j))

\* faulty variant: the loop ends at the first match
get_collapse_outcomes_first_match(e, c, index) ==
    LET RECURSIVE scan(_)
        scan(k) ==
            IF k > Len(e.stamps) THEN [kind |-> "None", stamp |-> <<>>]
            ELSE IF ~ViewStamp_allows(e, c, index, e.stamps[k].stamp)
            THEN scan(k + 1)
            ELSE [kind |-> "One", stamp |-> e.stamps[k].stamp]
    IN  scan(1)

\* faulty variant: a second match replaces the first instead of ending the
\* loop with Multiple
get_collapse_outcomes_last_match(e, c, index) ==
    LET RECURSIVE scan(_, _)
        scan(k, outcome) ==
            IF k > Len(e.stamps) THEN outcome
            ELSE IF ~ViewStamp_allows(e, c, index, e.stamps[k].stamp)
            THEN scan(k + 1, outcome)
            ELSE scan(k + 1, [kind |-> "One", stamp |-> e.stamps[k].stamp])
    IN  scan(1, [kind |-> "None", stamp |-> <<>>])

\* StampCollection::get_collapse_outcomes: the loop over the matches.
get_collapse_outcomes(e, c, index) ==
    LET RECURSIVE scan(_, _)
        scan(k, outcome) ==
            IF k > Len(e.stamps) THEN outcome
            ELSE IF ~ViewStamp_allows(e, c, index, e.stamps[k].stamp)
            THEN scan(k + 1, outcome)
            ELSE IF outcome.kind = "None"
            THEN scan(k + 1, [kind |-> "One", stamp |-> e.stamps[k].stamp])
            ELSE [kind |-> "Multiple", stamp |-> <<>>]
    IN  scan(1, [kind |-> "None", stamp |-> <<>>])

-----------------------------------------------------------------------------
(* wave::Naive. The wave is its world cuboid. A call threads a record r:    *)
(*   c      the world                                                       *)
(*   res    the Result of the call that returned last                       *)
(*   panic  an unwrap() on Err was reached                                  *)
(*   n      history: number of cell writes made so far in this call         *)
(*   mono   history: every write made through limit kept all set bits       *)
(*   live   history: the write budget MaxWrites was not exhausted           *)

MaxWrites == 10

Thread(c) ==
    [c |-> c, res |-> "Ok", panic |-> FALSE, n |-> 0, mono |-> TRUE, live |-> TRUE]

Naive_get_extent(e, c) ==
    Extent_new(c.offset, get_beyond_opposite_corner(e.wave, c))

Naive_get(e, c, index) == Cuboid_get(e.wave, c, index, FREE)

RECURSIVE Naive_set(_, _, _, _)
RECURSIVE Naive_collapse(_, _, _)
RECURSIVE Naive_limit_stamp(_, _, _, _)
RECURSIVE limit_stamp_visit(_, _, _, _, _)
RECURSIVE collapse_visit(_, _, _, _)

\* faulty variant: limit writes nothing
Naive_limit_nop(e, r, index, value) == [r EXCEPT !.res = "Ok"]

Naive_limit(e, r, index, value) ==
    LET old == Naive_get(e, r.c, index)
        kept == contains(e.wave, r.c, index) => MaskSubset(old, value)
    IN  Naive_set(e, [r EXCEPT !.mono = @ /\ kept], index, value)

\* faulty variant: the voxel read from the mirrored stamp index
limit_stamp_visit_mirrored(e, r, index, stamp, i) ==
    IF i >= ShapeSize(e.stamp) THEN [r EXCEPT !.res = "Ok"]
    ELSE LET stamp_index == delinearize(e.stamp, i)
             voxel == Stamp_get(e, stamp, delinearize(e.stamp, ShapeSize(e.stamp) - 1 - i))
             new == only(e.D, voxel)
             idx == IndexAdd(index, stamp_index)
         IN  IF new # Naive_get(e, r.c, idx)
             THEN LET r2 == Naive_limit(e, r, idx, new)
                  IN  IF r2.panic \/ r2.res = "OutOfBounds" THEN r2
                      ELSE limit_stamp_visit(e, r2, index, stamp, i + 1)
             ELSE limit_stamp_visit(e, r, index, stamp, i + 1)

\* the closure of limit_stamp applied to stamp indices i, i+1, ...
limit_stamp_visit(e, r, index, stamp, i) ==
    IF i >= ShapeSize(e.stamp) THEN [r EXCEPT !.res = "Ok"]
    ELSE LET stamp_index == delinearize(e.stamp, i)
             voxel == Stamp_get(e, stamp, stamp_index)
             new == only(e.D, voxel)
             idx == IndexAdd(index, stamp_index)
         IN  IF new # Naive_get(e, r.c, idx)
             THEN LET r2 == Naive_limit(e, r, idx, new)
                  IN  IF r2.panic \/ r2.res = "OutOfBounds" THEN r2
                      ELSE limit_stamp_visit(e, r2, index, stamp, i + 1)
             ELSE limit_stamp_visit(e, r, index, stamp, i + 1)

Naive_limit_stamp(e, r, index, stamp) == limit_stamp_visit(e, r, index, stamp, 0)

\* faulty variant: a window that no stamp fits raises
collapse_visit_raising(e, r, indices, k) ==
    IF k > Len(indices) THEN r
    ELSE LET index == indices[k]
             collapse == get_collapse_outcomes(e, r.c, index)
         IN  IF collapse.kind = "None" THEN [r EXCEPT !.panic = TRUE]
             ELSE IF collapse.kind = "One"
             THEN LET r2 == Naive_limit_stamp(e, r, index, collapse.stamp)
                  IN  IF r2.panic THEN r2
                      ELSE IF r2.res # "Ok" THEN [r2 EXCEPT !.panic = TRUE]
                      ELSE collapse_visit(e, r2, indices, k + 1)
             ELSE collapse_visit(e, r, indices, k + 1)

\* faulty variant: the forced stamp applied one window further on y
collapse_visit_shifted(e, r, indices, k) ==
    IF k > Len(indices) THEN r
    ELSE LET index == indices[k]
             collapse == get_collapse_outcomes(e, r.c, index)
         IN  IF collapse.kind = "One"
             THEN LET r2 == Naive_limit_stamp(e, r, IndexAdd(index, <<0, 1, 0>>),
                                              collapse.stamp)
                  IN  IF r2.panic THEN r2
                      ELSE IF r2.res # "Ok" THEN [r2 EXCEPT !.panic = TRUE]
                      ELSE collapse_visit(e, r2, indices, k + 1)
             ELSE collapse_visit(e, r, indices, k + 1)

\* the body of the for loop of collapse applied to indices[k], indices[k+1], ...
collapse_visit(e, r, indices, k) ==
    IF k > Len(indices) THEN r
    ELSE LET index == indices[k]
             collapse == get_collapse_outcomes(e, r.c, index)
         IN  IF collapse.kind = "One"
             THEN LET r2 == Naive_limit_stamp(e, r, index, collapse.stamp)
                  IN  IF r2.panic THEN r2
                      ELSE IF r2.res # "Ok" THEN [r2 EXCEPT !.panic = TRUE]
                      ELSE collapse_visit(e, r2, indices, k + 1)
             ELSE collapse_visit(e, r, indices, k + 1)

Naive_collapse(e, r, extent) ==
    LET stamp_extent == Extent_get_stamps_extent(e.stamp, Naive_get_extent(e, r.c))
    IN  collapse_visit(e, r, Extent_iter(Extent_intersection(extent, stamp_extent)), 1)

\* Naive::set: the early return on an equal value comes before the bounds
\* check. A call that has made MaxWrites writes stops propagating and
\* records it in live.
Naive_set(e, r, index, value) ==
    IF Naive_get(e, r.c, index) = value THEN [r EXCEPT !.res = "Ok"]
    ELSE LET s == Cuboid_set(e.wave, r.c, index, value)
         IN  IF s.res # "Ok" THEN [r EXCEPT !.res = "OutOfBounds"]
             ELSE IF r.n >= MaxWrites
             THEN [r EXCEPT !.c = s.c, !.n = @ + 1, !.live = FALSE, !.res = "Ok"]
             ELSE LET r2 == Naive_collapse(
                                e, [r EXCEPT !.c = s.c, !.n = @ + 1],
                                get_stamps_containing(
                                    e.stamp, Naive_get_extent(e, s.c), index))
                  IN  [r2 EXCEPT !.res = "Ok"]

Naive_new(e, world) == Naive_collapse(e, Thread(world), Naive_get_extent(e, world))

-----------------------------------------------------------------------------
(* Pseudo-entropy and the site and stamp choice of a collapse step.         *)

\* faulty variant: usize::BITS - v.leading_zeros(), the bit length
log2_bit_length(v) ==
    LET RECURSIVE lg(_)
        lg(x) == IF x <= 1 THEN 0 ELSE 1 + lg(x \div 2)
    IN  lg(v) + 1

\* usize::BITS - v.leading_zeros() - 1, for v >= 1
log2(v) ==
    LET RECURSIVE lg(_)
        lg(x) == IF x <= 1 THEN 0 ELSE 1 + lg(x \div 2)
    IN  lg(v)

\* faulty variant: the logarithm of the total one short
pseudo_entropy_sum_log_total_short(weights, total) ==
    LET log_total == log2(total) - 1
        RECURSIVE sum(_)
        sum(k) == IF k = 0 THEN 0
                  ELSE weights[k] * (log_total - log2(weights[k])) + sum(k - 1)
    IN  sum(Len(weights))

\* faulty variant: the terms not multiplied by their weight
pseudo_entropy_sum_unweighted(weights, total) ==
    LET log_total == log2(total)
        RECURSIVE sum(_)
        sum(k) == IF k = 0 THEN 0
                  ELSE (log_total - log2(weights[k])) + sum(k - 1)
    IN  sum(Len(weights))

\* The usize sum of get_pseudo_entropy; the result is sum as f32 / total as f32.
pseudo_entropy_sum(weights, total) ==
    LET log_total == log2(total)
        RECURSIVE sum(_)
        sum(k) == IF k = 0 THEN 0
                  ELSE weights[k] * (log_total - log2(weights[k])) + sum(k - 1)
    IN  sum(Len(weights))

\* get_pseudo_entropy: the f32 quotient, kept as numerator and denominator.
\* Integers below 2^23 convert to f32 exactly, and two such quotients over
\* one total compare as f32 the way the sums compare.
get_pseudo_entropy(weights, total) ==
    [num |-> pseudo_entropy_sum(weights, total), den |-> total]

\* faulty variant: no filter on the fit
get_distribution_all(e, c, index) == e.stamps

\* get_distribution: the entries of the collection that fit the view, in order
get_distribution(e, c, index) ==
    SelectSeq(e.stamps, LAMBDA s : ViewStamp_allows(e, c, index, s.stamp))

\* faulty variant: two possibilities counted as Collapsed
get_superposition_pseudo_entropy_pair(e, c, index, total) ==
    LET dist == get_distribution(e, c, index)
        possibilities_count == Len(dist)
    IN  IF possibilities_count = 0 THEN [kind |-> "Impossible", num |-> 0, den |-> 1]
        ELSE IF possibilities_count <= 2 THEN [kind |-> "Collapsed", num |-> 0, den |-> 1]
        ELSE [kind |-> "Open",
              num |-> pseudo_entropy_sum([k \in 1..Len(dist) |-> dist[k].count], total),
              den |-> total]

get_superposition_pseudo_entropy(e, c, index, total) ==
    LET dist == get_distribution(e, c, index)
        possibilities_count == Len(dist)
    IN  IF possibilities_count = 0 THEN [kind |-> "Impossible", num |-> 0, den |-> 1]
        ELSE IF possibilities_count = 1 THEN [kind |-> "Collapsed", num |-> 0, den |-> 1]
        ELSE [kind |-> "Open",
              num |-> pseudo_entropy_sum([k \in 1..Len(dist) |-> dist[k].count], total),
              den |-> total]

\* FloatOrd(a) < FloatOrd(b) for the quotients num / den
EntropyLess(a, b) == a.num * b.den < b.num * a.den

\* faulty variant: the last of equal minima kept
find_lowest_pseudo_entropy_last_tie(e, c, total) ==
    LET sites == Extent_iter(Cuboid_get_stamps_extent(e.wave, e.stamp, c))
        H(k) == get_superposition_pseudo_entropy(e, c, sites[k], total)
        open == {k \in 1..Len(sites) : H(k).kind = "Open"}
    IN  IF open = {} THEN [some |-> FALSE, index |-> <<>>]
        ELSE LET best == CHOOSE k \in open :
                            \A m \in open :
                                /\ ~EntropyLess(H(m), H(k))
                                /\ (m > k => EntropyLess(H(k), H(m)))
             IN  [some |-> TRUE, index |-> sites[best]]

\* find_lowest_pseudo_entropy: min_by_key keeps the first of equal minima.
find_lowest_pseudo_entropy(e, c, total) ==
    LET sites == Extent_iter(Cuboid_get_stamps_extent(e.wave, e.stamp, c))
        H(k) == get_superposition_pseudo_entropy(e, c, sites[k], total)
        open == {k \in 1..Len(sites) : H(k).kind = "Open"}
    IN  IF open = {} THEN [some |-> FALSE, index |-> <<>>]
        ELSE LET best == CHOOSE k \in open :
                            \A m \in open :
                                /\ ~EntropyLess(H(m), H(k))
                                /\ (m < k => EntropyLess(H(k), H(m)))
             IN  [some |-> TRUE, index |-> sites[best]]

\* find_preferred_stamp: the fitting stamp of the largest occurrence count,
\* the first in collection order among equals.
find_preferred_stamp(e, c, index) ==
    LET dist == get_distribution(e, c, index)
        best == CHOOSE k \in 1..Len(dist) :
                    \A m \in 1..Len(dist) :
                        /\ dist[m].count <= dist[k].count
                        /\ (m < k => dist[m].count < dist[k].count)
    IN  dist[best].stamp

-----------------------------------------------------------------------------
(* The run: a template, its stamp collection, a wave made by Naive::new,    *)
(* then set calls and StepOne events.                                       *)

VARIABLES
    geom,       \* the type parameters S, SourceShape, StampShape and the offset
    source,     \* the template: FlatPaddedGridCuboid<VoxelId, SourceShape>
    stamps,     \* the StampCollection, in the order the HashMap delivered
    wave,       \* the world of the wave
    wavePrev,   \* history: the world before the last call
    last,       \* history: the last call and what it returned
    sets,       \* number of set calls so far
    steps       \* number of stamp choices made by StepOne so far

waveVars == <<geom, source, stamps, wave, wavePrev, last, sets, steps>>

PaletteSize == 2

MaxSets == 1

MaxScenarioSets == 2

MaxExtraSteps == 2

\* a row of cells with stamps three cells long, at a negative offset
Line ==
    [wave |-> <<4, 1, 1>>, stamp |-> <<3, 1, 1>>, src |-> <<5, 1, 1>>,
     offset |-> <<-1, 0, 0>>,
     D |-> PaletteSize]

\* test cllapse_one with one layer of cells, two cells wide
Flat ==
    [wave |-> <<2, 4, 1>>, stamp |-> <<2, 2, 1>>, src |-> <<2, 4, 1>>,
     offset |-> <<0, 0, 0>>,
     D |-> PaletteSize]

Geometries == {Line, Flat}

Env(g, src, st) ==
    [wave |-> g.wave, stamp |-> g.stamp, src |-> g.src,
     D |-> g.D, source |-> src, stamps |-> st]

\* the template of cllapse_one: id 1 where y < 2, id 0 elsewhere
S5Source ==
    [data |-> [n \in 1..ShapeSize(Flat.src) |->
                  IF delinearize(Flat.src, n - 1)[2] < 2 THEN 1 ELSE 0],
     offset |-> <<0, 0, 0>>]

\* the templates. Line: the fillings with ids below D whose first voxel is
\* id 0 (the others are these with the ids renamed). Flat: that of
\* cllapse_one and the one with its ids exchanged.
Templates(g) ==
    IF g = Line
    THEN {[data |-> d, offset |-> <<0, 0, 0>>] :
            d \in {f \in [1..ShapeSize(g.src) -> 0..(PaletteSize - 1)] : f[1] = 0}}
    ELSE {S5Source,
          [S5Source EXCEPT !.data = [n \in DOMAIN @ |-> 1 - @[n]]]}

WaveCells(g) ==
    {IndexAdd(g.offset, delinearize(g.wave, n)) : n \in 0..(ShapeSize(g.wave) - 1)}

\* the superpositions written by set calls and seeds
Masks == {FREE, impossible(PaletteSize)} \cup {only(PaletteSize, v) : v \in 0..(PaletteSize - 1)}

\* seeds: all FREE or, on the line, the first or the last cell constrained
\* to one id
Seeds(g) ==
    LET free == Cuboid_new(g.wave, g.offset, FREE)
        ends == {g.offset, IndexSub(IndexAdd(g.offset, g.wave), Ones)}
    IN  {free} \cup
        IF g = Line
        THEN {Cuboid_set(g.wave, free, i, only(PaletteSize, v)).c :
                i \in ends, v \in 0..(PaletteSize - 1)}
        ELSE {}

\* indices of set calls. Line: the cells and the two indices next to them
\* on x. Flat: the edge x = 0 and the index beyond it on y.
SetIndices(g) ==
    IF g = Line
    THEN WaveCells(g) \cup {IndexSub(g.offset, <<1, 0, 0>>),
                            IndexAdd(g.offset, <<g.wave[1], 0, 0>>)}
    ELSE {<<0, y, 0>> : y \in 0..g.wave[2]}

\* superpositions of set calls
SetValues(g) ==
    IF g = Line THEN Masks ELSE {only(PaletteSize, v) : v \in 0..(PaletteSize - 1)}

SetBudget(g) == IF g = Line THEN MaxSets ELSE MaxScenarioSets

Cells(g) == ShapeSize(g.wave)

NoIndex == <<>>

Last(op, index, value, r, stamp) ==
    [op |-> op, index |-> index, value |-> value, stamp |-> stamp, c |-> r.c,
     res |-> r.res, panic |-> r.panic, n |-> r.n, mono |-> r.mono, live |-> r.live]

WaveInit ==
    /\ geom \in Geometries
    /\ source \in Templates(geom)
    /\ stamps \in Orderings(gather_stamps(geom.src, geom.stamp, source))
    /\ \E seed \in Seeds(geom) :
          \E r \in {Naive_new(Env(geom, source, stamps), seed)} :
              /\ wave = r.c
              /\ wavePrev = seed
              /\ last = [Last("new", NoIndex, FREE, r, NoIndex) EXCEPT !.c = <<>>]
    /\ sets = 0
    /\ steps = 0

\* a call of Naive::set
Set ==
    /\ sets < SetBudget(geom)
    /\ last.op \in {"new", "set"}
    /\ ~last.panic
    /\ \E index \in SetIndices(geom), value \in SetValues(geom) :
          \E r \in {Naive_set(Env(geom, source, stamps), Thread(wave), index, value)} :
              /\ wave' = r.c
              /\ last' = [Last("set", index, value, r, NoIndex) EXCEPT !.c = <<>>]
    /\ wavePrev' = wave
    /\ sets' = sets + 1
    /\ UNCHANGED <<geom, source, stamps, steps>>

\* The closure handle_events runs on a StepOne event with the stamps loaded:
\* the world afterwards and what the step did. The closure returns early
\* when the collapse pass reports a change, taken here as a pass that wrote
\* a cell.
StepOne_closure(e, world) ==
    LET pass == Naive_collapse(e, Thread(world), Naive_get_extent(e, world))
        candidate == find_lowest_pseudo_entropy(
                         e, world, get_total_occurrences(e.stamps))
    IN  IF pass.n > 0
        THEN Last("pass", NoIndex, FREE, pass, NoIndex)
        ELSE IF ~candidate.some
        THEN Last("stopped", NoIndex, FREE, pass, NoIndex)
        ELSE LET stamp == find_preferred_stamp(e, world, candidate.index)
                 r == Naive_limit_stamp(e, Thread(world), candidate.index, stamp)
             IN  [Last("step", candidate.index, FREE, r, stamp)
                    EXCEPT !.panic = r.panic \/ r.res # "Ok"]

\* handle_events on a StepOne event
StepOne ==
    /\ last.op # "stopped"
    /\ ~last.panic
    /\ steps < Cells(geom) * PaletteSize + MaxExtraSteps
    /\ UNCHANGED <<geom, source, stamps, sets>>
    /\ wavePrev' = wave
    /\ \E out \in {StepOne_closure(Env(geom, source, stamps), wave)} :
          /\ wave' = out.c
          /\ last' = [out EXCEPT !.c = <<>>]
          /\ steps' = IF out.op = "step" THEN steps + 1 ELSE steps

\* StepOne events delivered one after another until a step stops the driver
\* (or panics, or the budget of events is used up): the world at the end.
RECURSIVE run_driver(_, _, _)
run_driver(e, world, budget) ==
    LET out == StepOne_closure(e, world)
    IN  IF out.op = "stopped" \/ out.panic \/ budget = 0 THEN out.c
        ELSE run_driver(e, out.c, budget - 1)


-----------------------------------------------------------------------------
(* The cuboid alone: FlatPaddedGridCuboid<u8, CubShape> under set calls.    *)

CubShape == <<2, 3, 2>>

CubOffsets == {<<0, 0, 0>>, <<-1, -10, 1>>}

CubValues == {0, 1}

MaxCubCalls == 2

CubDefault == 0

CubCells(c) ==
    {IndexAdd(c.offset, delinearize(CubShape, n)) : n \in 0..(ShapeSize(CubShape) - 1)}

\* indices of set calls: the cells, the index one step beyond the extent on
\* each side of each axis, and the two diagonal ones
CubIndices(c) ==
    CubCells(c) \cup
    {IndexAdd(c.offset, d) :
        d \in {<<-1, 0, 0>>, <<CubShape[1], 0, 0>>, <<0, -1, 0>>, <<0, CubShape[2], 0>>,
               <<0, 0, -1>>, <<0, 0, CubShape[3]>>, <<-1, -1, -1>>, CubShape}}

CubInit ==
    /\ \E offset \in CubOffsets : cub = Cuboid_new(CubShape, offset, CubDefault)
    /\ cubRes = "none"
    /\ cubOp = [index |-> NoIndex, value |-> CubDefault]
    /\ cubWritten = [i \in {} |-> CubDefault]
    /\ cubPrev = cub
    /\ cubCalls = 0

CubSet ==
    /\ cubCalls < MaxCubCalls
    /\ \E index \in CubIndices(cub), value \in CubValues :
          \E s \in {Cuboid_set(CubShape, cub, index, value)} :
              /\ cub' = s.c
              /\ cubRes' = s.res
              /\ cubOp' = [index |-> index, value |-> value]
              /\ cubWritten' =
                    IF s.res = "Ok"
                    THEN [i \in DOMAIN cubWritten \cup {index} |->
                            IF i = index THEN value ELSE cubWritten[i]]
                    ELSE cubWritten
    /\ cubPrev' = cub
    /\ cubCalls' = cubCalls + 1

-----------------------------------------------------------------------------
(* Superposition<D> alone: the constructors and queries for every palette   *)
(* size the type distinguishes.                                             *)

VARIABLES
    sup         \* a palette size, two ids, and what the operations returned

\* "Can only distinguish up to 64 items."
MaxPalette == 64

NoCount == [panic |-> FALSE, value |-> 0]

SupArgs(D, v, w) ==
    [D |-> D, v |-> v, w |-> w, done |-> FALSE, free_allows |-> FALSE,
     impossible |-> FREE, only |-> FREE, only_allows |-> FALSE,
     only_count |-> NoCount, impossible_count |-> NoCount]

SupInit ==
    \E D \in 1..MaxPalette :
        \E v, w \in 0..(D - 1) : sup = SupArgs(D, v, w)

\* FREE.allows(v), impossible(), only(v), only(v).allows(w) and the two
\* count_allowed() calls for Superposition<D>
SupEval ==
    /\ ~sup.done
    /\ \E oc \in count_allowed(sup.D, only(sup.D, sup.v)),
          ic \in count_allowed(sup.D, impossible(sup.D)) :
          sup' = [sup EXCEPT !.done = TRUE,
                             !.free_allows = allows(FREE, sup.v),
                             !.impossible = impossible(sup.D),
                             !.only = only(sup.D, sup.v),
                             !.only_allows = allows(only(sup.D, sup.v), sup.w),
                             !.only_count = oc,
                             !.impossible_count = ic]

SupIdle == sup = SupArgs(PaletteSize, 0, 0)

-----------------------------------------------------------------------------
(* get_pseudo_entropy alone: two weight lists scored against one total, as *)
(* the tests entropy_precision, entropy_precision2 and pseudo_entropy_equal *)
(* do.                                                                      *)

VARIABLES
    ent         \* the two weight lists, the total, and the two scores

MaxEqualStamps == 5

MaxCount == 9

MaxTotal == 24

NoEntropy == [num |-> 0, den |-> 1]

EntArgs(first, second, total) ==
    [first |-> first, second |-> second, total |-> total, done |-> FALSE,
     pe_first |-> NoEntropy, pe_second |-> NoEntropy]

\* k and k+1 of n stamps of one occurrence count c, total n * c
EqualPairs ==
    UNION {{EntArgs([i \in 1..k |-> c], [i \in 1..(k + 1) |-> c], n * c) :
                c \in 1..MaxCount, k \in 1..(n - 1)} : n \in 2..MaxEqualStamps}

\* two splits of one total in two positive weights
SplitPairs ==
    UNION {{EntArgs(<<a, W - a>>, <<b, W - b>>, W) :
                a \in 1..(W - 1), b \in 1..(W - 1)} : W \in 2..MaxTotal}

\* the weights of entropy_precision and entropy_precision2
TestPairs ==
    {EntArgs(<<30001, 1>>, <<30000, 2>>, 30002),
     EntArgs(<<30001, 1001>>, <<30000, 1002>>, 31002)}

EntInit == ent \in EqualPairs \cup SplitPairs \cup TestPairs

\* the two get_pseudo_entropy calls of a test
EntEval ==
    /\ ~ent.done
    /\ ent' = [ent EXCEPT !.done = TRUE,
                          !.pe_first = get_pseudo_entropy(ent.first, ent.total),
                          !.pe_second = get_pseudo_entropy(ent.second, ent.total)]

EntIdle == ent = EntArgs(<<1, 1>>, <<1, 1, 1>>, 3)

-----------------------------------------------------------------------------
(* gather_stamps alone: a template, then the collection gathered from it    *)
(* and collected from the HashMap, as the tests stamps and stamps2 do.      *)

\* test stamps: 8x8x8 template, 2x2x2 stamps
GatherS1 ==
    [wave |-> Line.wave, stamp |-> <<2, 2, 2>>, src |-> <<8, 8, 8>>,
     offset |-> Line.offset,
     D |-> PaletteSize]

\* test stamps2: 4x4x4 template, 2x2x2 stamps
GatherS2 ==
    [wave |-> Line.wave, stamp |-> <<2, 2, 2>>, src |-> <<4, 4, 4>>,
     offset |-> Line.offset,
     D |-> PaletteSize]

\* a layer of 3x3 voxels with 2x2 stamps
Slab ==
    [wave |-> Line.wave, stamp |-> <<2, 2, 1>>, src |-> <<3, 3, 1>>,
     offset |-> Line.offset,
     D |-> PaletteSize]

GatherGeometries == {GatherS1, GatherS2, Slab, Line}

\* the template of stamps2: id 1 where y < 2, id 0 elsewhere
S2Source ==
    [data |-> [n \in 1..ShapeSize(GatherS2.src) |->
                  IF delinearize(GatherS2.src, n - 1)[2] < 2 THEN 1 ELSE 0],
     offset |-> <<0, 0, 0>>]

TemplateOffsets == {<<0, 0, 0>>, <<-2, 1, 0>>}

\* stamps: the cuboid as new() leaves it. stamps2: the split one. The small
\* shapes: every filling with ids below D, at either offset.
GatherTemplates(g) ==
    IF g = GatherS1 THEN {Cuboid_new(g.src, <<0, 0, 0>>, 0)}
    ELSE IF g = GatherS2 THEN {S2Source}
    ELSE {[data |-> d, offset |-> o] :
            d \in [1..ShapeSize(g.src) -> 0..(PaletteSize - 1)],
            o \in TemplateOffsets}

GatherInit ==
    /\ geom \in GatherGeometries
    /\ source \in GatherTemplates(geom)
    /\ stamps = <<>>
    /\ wave = Cuboid_new(Line.wave, Line.offset, FREE)
    /\ wavePrev = wave
    /\ last = [Last("template", NoIndex, FREE, Thread(wave), NoIndex) EXCEPT !.c = <<>>]
    /\ sets = 0
    /\ steps = 0

\* gather_stamps(&world, Wrapping).into_iter().collect()
Gather ==
    /\ last.op = "template"
    /\ stamps' \in Orderings(gather_stamps(geom.src, geom.stamp, source))
    /\ last' = [last EXCEPT !.op = "gather"]
    /\ UNCHANGED <<geom, source, wave, wavePrev, sets, steps>>

-----------------------------------------------------------------------------
(* The site queries alone: a wave built cell by cell, as the tests          *)
(* superposition_lowest_entropy and superposition_collapsed_entropy build   *)
(* it, then scored and classified at every site.                            *)

VARIABLES
    site        \* what the site queries returned

\* test superposition_collapsed_entropy with one column of cells
Column ==
    [wave |-> <<1, 4, 1>>, stamp |-> <<1, 2, 1>>, src |-> <<1, 4, 1>>,
     offset |-> <<0, 0, 0>>,
     D |-> PaletteSize]

\* a layer of 3x3 cells with 2x2 stamps: sites on two axes
Grid ==
    [wave |-> <<3, 3, 1>>, stamp |-> <<2, 2, 1>>, src |-> <<3, 3, 1>>,
     offset |-> <<0, 0, 0>>,
     D |-> PaletteSize]

SiteGeometries == {Line, Column, Flat, Grid}

\* Column and Line: every filling whose first voxel is fixed (the others
\* are these with the ids renamed). Flat: the split template. Grid: a split
\* one and a diagonal one.
SiteTemplates(g) ==
    IF g = Column
    THEN {[data |-> d, offset |-> <<0, 0, 0>>] :
            d \in {f \in [1..ShapeSize(g.src) -> 0..(PaletteSize - 1)] : f[1] = 1}}
    ELSE IF g = Grid
    THEN {[data |-> [n \in 1..ShapeSize(g.src) |->
                        IF delinearize(g.src, n - 1)[2] < 1 THEN 1 ELSE 0],
           offset |-> <<0, 0, 0>>],
          [data |-> [n \in 1..ShapeSize(g.src) |->
                        IF delinearize(g.src, n - 1)[1] = delinearize(g.src, n - 1)[2]
                        THEN 1 ELSE 0],
           offset |-> <<0, 0, 0>>]}
    ELSE Templates(g)

\* the waves: Line and Column, every cell FREE or only(v); Flat and Grid,
\* at most two cells other than FREE, of any mask
SiteWaves(g) ==
    IF g \in {Line, Column}
    THEN {[data |-> d, offset |-> g.offset] :
            d \in [1..ShapeSize(g.wave) -> Masks \ {impossible(PaletteSize)}]}
    ELSE {[data |-> [n \in 1..ShapeSize(g.wave) |->
                        IF n = p THEN a ELSE IF n = q THEN b ELSE FREE],
           offset |-> g.offset] :
            p \in 1..ShapeSize(g.wave), q \in 1..ShapeSize(g.wave),
            a \in Masks, b \in Masks}

NoSite == [scored |-> FALSE, H |-> <<>>, lowest |-> [some |-> FALSE, index |-> <<>>],
           classified |-> FALSE, outcomes |-> <<>>]

SiteInit ==
    /\ geom \in SiteGeometries
    /\ source \in SiteTemplates(geom)
    /\ stamps \in Orderings(gather_stamps(geom.src, geom.stamp, source))
    /\ wave \in SiteWaves(geom)
    /\ wavePrev = wave
    /\ last = [Last("seed", NoIndex, FREE, Thread(wave), NoIndex) EXCEPT !.c = <<>>]
    /\ sets = 0
    /\ steps = 0
    /\ site = NoSite

\* get_superposition_pseudo_entropy at every site and
\* find_lowest_pseudo_entropy, with the total the tests and the driver pass
SiteScore ==
    /\ ~site.scored
    /\ \E e \in {Env(geom, source, stamps)}, total \in {get_total_occurrences(stamps)} :
          \E sites \in {Extent_iter(Cuboid_get_stamps_extent(geom.wave, geom.stamp, wave))} :
              site' = [site EXCEPT
                          !.scored = TRUE,
                          !.H = [k \in DOMAIN sites |->
                                    [index |-> sites[k],
                                     entropy |-> get_superposition_pseudo_entropy(
                                                     e, wave, sites[k], total)]],
                          !.lowest = find_lowest_pseudo_entropy(e, wave, total)]
    /\ UNCHANGED waveVars

\* get_collapse_outcomes at every site
SiteOutcomes ==
    /\ ~site.classified
    /\ \E e \in {Env(geom, source, stamps)} :
          \E sites \in {Extent_iter(Cuboid_get_stamps_extent(geom.wave, geom.stamp, wave))} :
              site' = [site EXCEPT
                          !.classified = TRUE,
                          !.outcomes = [k \in DOMAIN sites |->
                                           [index |-> sites[k],
                                            outcome |-> get_collapse_outcomes(
                                                            e, wave, sites[k])]]]
    /\ UNCHANGED waveVars

SiteIdle == site = NoSite

-----------------------------------------------------------------------------
(* limit_stamp called directly on a wave made by Naive::new, at offsets     *)
(* inside and outside the stamps-extent, with any stamp of the collection.  *)

\* the palette size of the scene the generator collapses
ScenePalette == 5

\* the ids of the scene palette that the templates of the model use
SceneIds == 3

\* the row of cells with the palette of the scene
SceneLine == [Line EXCEPT !.D = ScenePalette]

LimitGeometries == Geometries \cup {SceneLine}

\* SceneLine: the fillings with the first SceneIds ids whose first voxel is
\* id 0
LimitTemplates(g) ==
    IF g = SceneLine
    THEN {[data |-> d, offset |-> <<0, 0, 0>>] :
            d \in {f \in [1..ShapeSize(g.src) -> 0..(SceneIds - 1)] : f[1] = 0}}
    ELSE Templates(g)

LimitInit ==
    /\ geom \in LimitGeometries
    /\ source \in LimitTemplates(geom)
    /\ stamps \in Orderings(gather_stamps(geom.src, geom.stamp, source))
    /\ \E seed \in Seeds(geom) :
          \E r \in {Naive_new(Env(geom, source, stamps), seed)} :
              /\ wave = r.c
              /\ wavePrev = seed
              /\ last = [Last("new", NoIndex, FREE, r, NoIndex) EXCEPT !.c = <<>>]
    /\ sets = 0
    /\ steps = 0

\* the cells of the wave and the indices one step off them on x and on y
LimitOffsets(g) ==
    {IndexAdd(c, d) :
        c \in WaveCells(g),
        d \in {<<0, 0, 0>>, <<-1, 0, 0>>, <<1, 0, 0>>, <<0, -1, 0>>, <<0, 1, 0>>}}

\* a call of Naive::limit_stamp
LimitStamp ==
    /\ last.op = "new"
    /\ ~last.panic
    /\ \E index \in LimitOffsets(geom), k \in DOMAIN stamps :
          \E r \in {Naive_limit_stamp(Env(geom, source, stamps), Thread(wave),
                                      index, stamps[k].stamp)} :
              /\ wave' = r.c
              /\ last' = [Last("limit_stamp", index, FREE, r, stamps[k].stamp)
                            EXCEPT !.c = <<>>]
    /\ wavePrev' = wave
    /\ UNCHANGED <<geom, source, stamps, sets, steps>>

\* the superpositions passed to limit: FREE, impossible() and only(v) of the
\* wave's palette
LimitValues(g) == {FREE, impossible(g.D)} \cup {only(g.D, v) : v \in 0..(g.D - 1)}

\* a call of Naive::limit
Limit ==
    /\ last.op = "new"
    /\ ~last.panic
    /\ \E index \in LimitOffsets(geom), value \in LimitValues(geom) :
          \E r \in {Naive_limit(Env(geom, source, stamps), Thread(wave),
                                index, value)} :
              /\ wave' = r.c
              /\ last' = [Last("limit", index, value, r, NoIndex) EXCEPT !.c = <<>>]
    /\ wavePrev' = wave
    /\ UNCHANGED <<geom, source, stamps, sets, steps>>

\* a call of Naive::set on a wave made by Naive::new, with the
\* superpositions of the wave's palette
SceneSet ==
    /\ last.op = "new"
    /\ ~last.panic
    /\ \E index \in LimitOffsets(geom), value \in LimitValues(geom) :
          \E r \in {Naive_set(Env(geom, source, stamps), Thread(wave), index, value)} :
              /\ wave' = r.c
              /\ last' = [Last("set", index, value, r, NoIndex) EXCEPT !.c = <<>>]
    /\ wavePrev' = wave
    /\ sets' = sets + 1
    /\ UNCHANGED <<geom, source, stamps, steps>>

-----------------------------------------------------------------------------
(* Chunks, World and the copy-on-write overlay Cow.                         *)
(* A PaletteIdChunk is an array of 4096 voxels; it is kept as the function  *)
(* from the linear positions that were written to their voxels, every other *)
(* position holding PaletteVoxel::EMPTY.                                    *)

VARIABLES
    cow         \* a Cow over a base world, the world its changes went to,
                \* and the history of the calls

\* pub type ChunkShape = ndshape::ConstShape3u32<16, 16, 16>
ChunkEdge == 16

ChunkShape == <<ChunkEdge, ChunkEdge, ChunkEdge>>

\* PaletteVoxel::EMPTY
EMPTY == 0

\* i32::rem_euclid for a positive divisor
rem_euclid(v, m) == v % m

\* faulty variant: the remainder of Rust's %, which has the sign of v
trunc_toward_zero(v, thr) ==
    LET r == IF v >= 0 THEN v % thr ELSE 0 - ((0 - v) % thr)
    IN  v - r

trunc(v, thr) ==
    LET r == rem_euclid(v, thr)
    IN  v - r

new_encompassing(index) ==
    <<trunc(index[1], ChunkShape[1]),
      trunc(index[2], ChunkShape[2]),
      trunc(index[3], ChunkShape[3])>>

get_internal_offset(index) == IndexSub(index, new_encompassing(index))

\* PaletteIdChunk::EMPTY
EMPTY_CHUNK == [n \in {} |-> EMPTY]

Chunk_get(chunk, offset) ==
    LET n == linearize(ChunkShape, offset)
    IN  IF n \in DOMAIN chunk THEN chunk[n] ELSE EMPTY

Chunk_set(chunk, offset, value) ==
    LET n == linearize(ChunkShape, offset)
    IN  [k \in DOMAIN chunk \cup {n} |-> IF k = n THEN value ELSE chunk[k]]

\* World::default()
World_default == [ci \in {} |-> EMPTY_CHUNK]

World_get_chunk(world, offset) ==
    IF offset \in DOMAIN world THEN world[offset] ELSE EMPTY_CHUNK

World_get(world, offset) ==
    LET ci == new_encompassing(offset)
    IN  IF ci \in DOMAIN world
        THEN Chunk_get(world[ci], get_internal_offset(offset))
        ELSE EMPTY

Cow_new(base) == [base |-> base, overlaid |-> [ci \in {} |-> EMPTY_CHUNK]]

Cow_get_chunk(c, offset) ==
    IF offset \in DOMAIN c.overlaid THEN c.overlaid[offset]
    ELSE World_get_chunk(c.base, offset)

Cow_get(c, offset) ==
    LET ci == new_encompassing(offset)
    IN  Chunk_get(Cow_get_chunk(c, ci), get_internal_offset(offset))

\* faulty variant: a chunk entering the overlay starts empty instead of as
\* the copy of the base chunk
Cow_set_fresh_chunk(c, offset, value) ==
    LET ci == new_encompassing(offset)
        i == get_internal_offset(offset)
        chunk == IF ci \in DOMAIN c.overlaid THEN c.overlaid[ci] ELSE EMPTY_CHUNK
    IN  [c EXCEPT !.overlaid =
            [k \in DOMAIN @ \cup {ci} |->
                IF k = ci THEN Chunk_set(chunk, i, value) ELSE @[k]]]

\* Cow::set with get_chunk_mut: overlaid.entry(ci).or_insert_with(base chunk)
Cow_set(c, offset, value) ==
    LET ci == new_encompassing(offset)
        i == get_internal_offset(offset)
        chunk == IF ci \in DOMAIN c.overlaid THEN c.overlaid[ci]
                 ELSE World_get_chunk(c.base, ci)
    IN  [c EXCEPT !.overlaid =
            [k \in DOMAIN @ \cup {ci} |->
                IF k = ci THEN Chunk_set(chunk, i, value) ELSE @[k]]]

into_changes(c) == c.overlaid

\* faulty variant: only chunks the world already has are replaced
Overlay_apply_existing(overlay, output) ==
    [ci \in DOMAIN output |->
        IF ci \in DOMAIN overlay THEN overlay[ci] ELSE output[ci]]

\* Overlay::apply: output.chunks.insert(offset, chunk) for every chunk
Overlay_apply(overlay, output) ==
    [ci \in DOMAIN output \cup DOMAIN overlay |->
        IF ci \in DOMAIN overlay THEN overlay[ci] ELSE output[ci]]

MaxCowCalls == 2

\* indices of Cow calls: both sides of the chunk borders at -16, 0 and 16
\* on x, of the border at 0 on y and z
CowIndices ==
    {<<x, y, z>> : x \in {-17, -16, -1, 0, 15, 16}, y \in {-1, 0}, z \in {-1, 0}}

\* voxels written: EMPTY and two palette entries
CowValues == {EMPTY, 1, 2}

\* a voxel of the base worlds that no call writes
BaseVoxel == 3

\* the world with the chunks at (-16,-16,-16) and (0,0,0), each with two
\* voxels set
TwoChunks ==
    [ci \in {<<-16, -16, -16>>, <<0, 0, 0>>} |->
        IF ci = <<0, 0, 0>>
        THEN Chunk_set(Chunk_set(EMPTY_CHUNK, <<0, 0, 0>>, BaseVoxel),
                       <<15, 0, 0>>, BaseVoxel)
        ELSE Chunk_set(Chunk_set(EMPTY_CHUNK, <<15, 15, 15>>, BaseVoxel),
                       <<0, 15, 15>>, BaseVoxel)]

\* base worlds: World::default() as in the tests, and TwoChunks
CowBases == {World_default, TwoChunks}

CowState(base) ==
    [c |-> Cow_new(base), B |-> base, world |-> base, op |-> "new",
     index |-> NoIndex, value |-> EMPTY, ci |-> NoIndex, io |-> NoIndex,
     written |-> [i \in {} |-> EMPTY], calls |-> 0]

CowInit == \E base \in CowBases : cow = CowState(base)

\* a call of Cow::set
CowSet ==
    /\ cow.op \in {"new", "set"}
    /\ cow.calls < MaxCowCalls
    /\ \E index \in CowIndices, value \in CowValues :
          cow' = [cow EXCEPT
                     !.c = Cow_set(cow.c, index, value),
                     !.op = "set", !.index = index, !.value = value,
                     !.ci = new_encompassing(index),
                     !.io = get_internal_offset(index),
                     !.written = [i \in DOMAIN @ \cup {index} |->
                                     IF i = index THEN value ELSE @[i]],
                     !.calls = @ + 1]

\* cow.into_changes().apply(&mut world) on the world the Cow was based on;
\* the Cow is consumed, c keeps what it was before
CowApply ==
    /\ cow.op \in {"new", "set"}
    /\ cow' = [cow EXCEPT
                  !.world = Overlay_apply(into_changes(cow.c), cow.c.base),
                  !.op = "apply"]

CowIdle == cow = CowState(World_default)

-----------------------------------------------------------------------------
(* Extent alone: intersection and iteration of two extents, and the stamp   *)
(* offsets whose windows contain an index.                                  *)

VARIABLES
    ext         \* the extents, the arguments and what the calls returned

\* the coordinates of the extents' corners lie in -MaxCoord..MaxCoord on x,
\* in a narrower range on y and z
MaxCoord == 2

\* the extents Extent::new makes from corners in the range, the empty one
\* among them
Extents ==
    {Extent_new(<<sx, sy, sz>>, <<ex, ey, ez>>) :
        sx \in -MaxCoord..MaxCoord, ex \in -MaxCoord..MaxCoord,
        sy \in -1..1, ey \in -1..1, sz \in -1..0, ez \in 0..1}

\* the extents of the tests edge and containing
TestExtents ==
    {Extent_new(<<0, 0, 0>>, <<4, 4, 4>>), Extent_new(<<0, 0, 0>>, <<5, 5, 5>>)}

\* stamp shapes: that of the tests, and ones longer on one axis
StampShapes == {<<2, 2, 2>>, <<3, 1, 1>>, <<1, 2, 1>>, <<1, 1, 1>>}

\* indices asked about: in and around the extents
ExtIndices(x) ==
    IF x \in TestExtents THEN {<<2, 2, 2>>, <<0, 0, 0>>, <<4, 4, 4>>, <<3, 3, 3>>}
    ELSE {<<ix, iy, iz>> :
            ix \in (-MaxCoord - 1)..(MaxCoord + 1), iy \in -1..1, iz \in -1..1}

ExtArgs(A, B, kind) ==
    [A |-> A, B |-> B, kind |-> kind, op |-> "new", r |-> A, items |-> <<>>,
     itemsA |-> <<>>, itemsB |-> <<>>, index |-> NoIndex, stampShape |-> Ones]

\* two extents to intersect, or one extent to ask for stamp offsets
ExtInit ==
    \/ \E A \in Extents, B \in Extents : ext = ExtArgs(A, B, "two")
    \/ \E A \in Extents \cup TestExtents : ext = ExtArgs(A, A, "one")

\* A.intersection(&B).iter(), A.iter() and B.iter() collected
ExtIntersect ==
    /\ ext.op = "new"
    /\ ext.kind = "two"
    /\ \E r \in {Extent_intersection(ext.A, ext.B)} :
          ext' = [ext EXCEPT !.op = "intersection", !.r = r,
                             !.items = Extent_iter(r),
                             !.itemsA = Extent_iter(ext.A),
                             !.itemsB = Extent_iter(ext.B)]

\* A.get_stamps_containing::<StampShape>(index).iter() collected
ExtContaining ==
    /\ ext.op = "new"
    /\ ext.kind = "one"
    /\ \E stampShape \in StampShapes, index \in ExtIndices(ext.A) :
          \E r \in {get_stamps_containing(stampShape, ext.A, index)} :
              ext' = [ext EXCEPT !.op = "containing", !.r = r,
                                 !.items = Extent_iter(r),
                                 !.index = index, !.stampShape = stampShape]

ExtIdle == ext = ExtArgs(Extent_new(Ones, Ones), Extent_new(Ones, Ones), "idle")

-----------------------------------------------------------------------------
(* FlatPaddedCuboid<V>: the cuboid with run-time dimensions, a record       *)
(* [data, offset, dimensions], built from a Space and then read or written. *)

VARIABLES
    rc          \* the space sampled, the cuboid, the last call and its results

FlatPaddedCuboid_contains(c, index) == contains(c.dimensions, c, index)

\* the space the cuboids are sampled from: a 5x2x1 grid cuboid at (-2,0,0)
\* whose voxels are all different, 0 (the default) outside
SpaceShape == <<5, 2, 1>>

SampledSpace ==
    [data |-> [n \in 1..ShapeSize(SpaceShape) |-> n], offset |-> <<-2, 0, 0>>]

Space_get(space, index) == Cuboid_get(SpaceShape, space, index, 0)

\* FlatPaddedCuboid::new_from_space
FlatPaddedCuboid_new_from_space(space, offset, dimensions) ==
    [data |-> [n \in 1..ShapeSize(dimensions) |->
                  Space_get(space, IndexAdd(delinearize(dimensions, n - 1), offset))],
     offset |-> offset, dimensions |-> dimensions]

\* self.data[self.get_shape().linearize(to_usize_arr(index.into()))]: the
\* positions the indexing can reach, or a panic. A negative coordinate
\* becomes a usize above 2^63: the sum then overflows (a panic with overflow
\* checks) or wraps to the signed sum; a position beyond the Vec panics.
FlatPaddedCuboid_position(c, index) ==
    LET n == linearize(c.dimensions, index)
        wrapped == IF 0 <= n /\ n < Len(c.data)
                   THEN {[panic |-> FALSE, n |-> n]}
                   ELSE {[panic |-> TRUE, n |-> 0]}
    IN  IF \E k \in 1..3 : index[k] < 0
        THEN wrapped \cup {[panic |-> TRUE, n |-> 0]}
        ELSE wrapped

\* Space::get for FlatPaddedCuboid: the outcomes [panic, value]
FlatPaddedCuboid_get(c, index, default) ==
    IF FlatPaddedCuboid_contains(c, index)
    THEN {[panic |-> p.panic,
           value |-> IF p.panic THEN default ELSE c.data[p.n + 1]] :
            p \in FlatPaddedCuboid_position(c, index)}
    ELSE {[panic |-> FALSE, value |-> default]}

\* FlatPaddedCuboid::set: the outcomes [panic, res, c]
FlatPaddedCuboid_set(c, index, value) ==
    IF FlatPaddedCuboid_contains(c, index)
    THEN {[panic |-> p.panic, res |-> "Ok",
           c |-> IF p.panic THEN c ELSE [c EXCEPT !.data[p.n + 1] = value]] :
            p \in FlatPaddedCuboid_position(c, index)}
    ELSE {[panic |-> FALSE, res |-> "OutOfBounds", c |-> c]}

\* offsets and dimensions of new_from_space
RcOffsets == {<<0, 0, 0>>, <<1, 0, 0>>, <<-1, 0, 0>>, <<-2, 0, 0>>, <<0, 1, 0>>}

RcDimensions == {<<2, 1, 1>>, <<2, 2, 1>>, <<1, 2, 1>>, <<3, 1, 1>>}

\* indices read and written: the space and one step around it on x and y
RcIndices == {<<x, y, 0>> : x \in -3..3, y \in -1..2}

\* a value no voxel of the space has
RcValue == 99

RcState(c) ==
    [c |-> c, op |-> "new", index |-> NoIndex, panic |-> FALSE, res |-> "none",
     got |-> 0]

RcInit ==
    \E offset \in RcOffsets, dimensions \in RcDimensions :
        rc = RcState(FlatPaddedCuboid_new_from_space(SampledSpace, offset, dimensions))

\* get(i) on the cuboid as built
RcGet ==
    /\ rc.op = "new"
    /\ \E index \in RcIndices :
          \E g \in FlatPaddedCuboid_get(rc.c, index, 0) :
              rc' = [rc EXCEPT !.op = "get", !.index = index,
                               !.panic = g.panic, !.got = g.value]

\* set(i, v) followed by get(i)
RcSetGet ==
    /\ rc.op = "new"
    /\ \E index \in RcIndices :
          \E s \in FlatPaddedCuboid_set(rc.c, index, RcValue) :
              IF s.panic
              THEN rc' = [rc EXCEPT !.op = "set", !.index = index, !.panic = TRUE]
              ELSE \E g \in FlatPaddedCuboid_get(s.c, index, 0) :
                      rc' = [rc EXCEPT !.op = "set", !.index = index, !.c = s.c,
                                       !.res = s.res, !.panic = g.panic,
                                       !.got = g.value]

RcIdle ==
    rc = RcState(FlatPaddedCuboid_new_from_space(SampledSpace, <<0, 0, 0>>, Ones))

-----------------------------------------------------------------------------
(* FlatPaddedGridCuboid<V, Shape> made by its constructors and by           *)
(* deserialization of a FlatCuboid record {data, offset, dimensions}.       *)

VARIABLES
    des         \* the Shape, how the cuboid was made, and the cuboid or error

\* FlatPaddedGridCuboid::new_from_space
Cuboid_new_from_space(sh, space, offset) ==
    [data |-> [n \in 1..ShapeSize(sh) |->
                  Space_get(space, IndexAdd(delinearize(sh, n - 1), offset))],
     offset |-> offset]

\* impl From<S> for FlatPaddedGridCuboid: the offset is that of the space
Cuboid_from(sh, space) == Cuboid_new_from_space(sh, space, space.offset)

\* From<[i64; 3]> for WorldIndex: each coordinate `as i32`, which keeps the
\* values of the i32 range
i64_to_i32_arr(a) == a

\* unsafe fn new_from_samples(data, offset): the samples become the buffer,
\* their number being the caller's responsibility
new_from_samples(data, offset) == [data |-> data, offset |-> offset]

\* Deserialize for FlatPaddedGridCuboid<V, Shape>: [res, c]
Cuboid_deserialize(sh, ret) ==
    LET expected == ret.dimensions[1] * ret.dimensions[2] * ret.dimensions[3]
    IN  IF expected # Len(ret.data)
        THEN [res |-> "Err", c |-> <<>>]
        ELSE LET offset == i64_to_i32_arr(ret.offset)
             IN  [res |-> "Ok", c |-> new_from_samples(ret.data, offset)]

\* the Shape parameters of the cuboid type
DesShapes == {<<1, 1, 1>>, <<2, 1, 1>>, <<2, 2, 1>>, <<1, 2, 2>>}

\* the dimensions field of the records
DesDimensions == DesShapes \cup {<<0, 1, 1>>, <<3, 1, 1>>, <<4, 1, 1>>}

\* the longest data field of the records
MaxSamples == 5

DesOffsets == {<<0, 0, 0>>, <<-1, -10, 1>>}

\* the voxel of the records' samples
DesVoxel == 7

DesState(sh) == [shape |-> sh, op |-> "none", res |-> "none", c |-> <<>>, ret |-> <<>>]

DesInit == \E sh \in DesShapes : des = DesState(sh)

\* one of the constructors new, new_from_space, From<Space>
DesConstruct ==
    /\ des.op = "none"
    /\ \E offset \in DesOffsets :
          \E made \in {[op |-> "new", c |-> Cuboid_new(des.shape, offset, 0)],
                       [op |-> "new_from_space",
                        c |-> Cuboid_new_from_space(des.shape, SampledSpace, offset)],
                       [op |-> "from",
                        c |-> Cuboid_from(des.shape, SampledSpace)]} :
              des' = [des EXCEPT !.op = made.op, !.res = "Ok", !.c = made.c]

\* deserialization of a record
DesDeserialize ==
    /\ des.op = "none"
    /\ \E len \in 0..MaxSamples, offset \in DesOffsets, dimensions \in DesDimensions :
          \E ret \in {[data |-> [n \in 1..len |-> DesVoxel], offset |-> offset,
                       dimensions |-> dimensions]} :
              \E r \in {Cuboid_deserialize(des.shape, ret)} :
                  des' = [des EXCEPT !.op = "deserialize", !.res = r.res,
                                     !.c = r.c, !.ret = ret]

DesIdle == des = DesState(Ones)

-----------------------------------------------------------------------------
(* Specifications.                                                          *)

probeVars == <<sup, ent, site, cow, ext, rc, des>>

vars == <<cubVars, waveVars, probeVars>>

\* the objects of the other specifications at rest
MoreIdle == CowIdle /\ ExtIdle /\ RcIdle /\ DesIdle

WaveIdle ==
    /\ geom = Line
    /\ source = Cuboid_new(Line.src, <<0, 0, 0>>, 0)
    /\ stamps = <<>>
    /\ wave = Cuboid_new(Line.wave, Line.offset, FREE)
    /\ wavePrev = wave
    /\ last = [Last("new", NoIndex, FREE, Thread(wave), NoIndex) EXCEPT !.c = <<>>]
    /\ sets = 0
    /\ steps = 0

CubIdle ==
    /\ cub = Cuboid_new(CubShape, <<0, 0, 0>>, CubDefault)
    /\ cubRes = "none"
    /\ cubOp = [index |-> NoIndex, value |-> CubDefault]
    /\ cubWritten = [i \in {} |-> CubDefault]
    /\ cubPrev = cub
    /\ cubCalls = 0

Init == WaveInit /\ CubIdle /\ SupIdle /\ EntIdle /\ SiteIdle /\ MoreIdle

Next ==
    \/ Set /\ UNCHANGED <<cubVars, probeVars>>
    \/ StepOne /\ UNCHANGED <<cubVars, probeVars>>

Spec == Init /\ [][Next]_vars

CuboidInit == CubInit /\ WaveIdle /\ SupIdle /\ EntIdle /\ SiteIdle /\ MoreIdle

CuboidNext == CubSet /\ UNCHANGED <<waveVars, probeVars>>

CuboidSpec == CuboidInit /\ [][CuboidNext]_vars

SuperInit == SupInit /\ WaveIdle /\ CubIdle /\ EntIdle /\ SiteIdle /\ MoreIdle

SuperNext == SupEval /\ UNCHANGED <<cubVars, waveVars, ent, site, cow, ext, rc, des>>

SuperSpec == SuperInit /\ [][SuperNext]_vars

EntropyInit == EntInit /\ WaveIdle /\ CubIdle /\ SupIdle /\ SiteIdle /\ MoreIdle

EntropyNext == EntEval /\ UNCHANGED <<cubVars, waveVars, sup, site, cow, ext, rc, des>>

EntropySpec == EntropyInit /\ [][EntropyNext]_vars

GatherSpecInit == GatherInit /\ CubIdle /\ SupIdle /\ EntIdle /\ SiteIdle /\ MoreIdle

GatherNext == Gather /\ UNCHANGED <<cubVars, probeVars>>

GatherSpec == GatherSpecInit /\ [][GatherNext]_vars

SiteSpecInit == SiteInit /\ CubIdle /\ SupIdle /\ EntIdle /\ MoreIdle

SiteNext ==
    \/ SiteScore /\ UNCHANGED <<cubVars, sup, ent, cow, ext, rc, des>>
    \/ SiteOutcomes /\ UNCHANGED <<cubVars, sup, ent, cow, ext, rc, des>>

SiteSpec == SiteSpecInit /\ [][SiteNext]_vars

LimitNext ==
    \/ LimitStamp /\ UNCHANGED <<cubVars, probeVars>>
    \/ Limit /\ UNCHANGED <<cubVars, probeVars>>

LimitSpecInit == LimitInit /\ CubIdle /\ SupIdle /\ EntIdle /\ SiteIdle /\ MoreIdle

LimitSpec == LimitSpecInit /\ [][LimitNext]_vars

SceneNext == SceneSet /\ UNCHANGED <<cubVars, probeVars>>

SceneSpec == LimitSpecInit /\ [][SceneNext]_vars

CowSpecInit ==
    /\ CowInit /\ WaveIdle /\ CubIdle /\ SupIdle /\ EntIdle /\ SiteIdle
    /\ ExtIdle /\ RcIdle /\ DesIdle

CowNext ==
    \/ CowSet /\ UNCHANGED <<cubVars, waveVars, sup, ent, site, ext, rc, des>>
    \/ CowApply /\ UNCHANGED <<cubVars, waveVars, sup, ent, site, ext, rc, des>>

CowSpec == CowSpecInit /\ [][CowNext]_vars

ExtentSpecInit ==
    /\ ExtInit /\ WaveIdle /\ CubIdle /\ SupIdle /\ EntIdle /\ SiteIdle
    /\ CowIdle /\ RcIdle /\ DesIdle

ExtentNext ==
    \/ ExtIntersect /\ UNCHANGED <<cubVars, waveVars, sup, ent, site, cow, rc, des>>
    \/ ExtContaining /\ UNCHANGED <<cubVars, waveVars, sup, ent, site, cow, rc, des>>

ExtentSpec == ExtentSpecInit /\ [][ExtentNext]_vars

RuntimeSpecInit ==
    /\ RcInit /\ WaveIdle /\ CubIdle /\ SupIdle /\ EntIdle /\ SiteIdle
    /\ CowIdle /\ ExtIdle /\ DesIdle

RuntimeNext ==
    \/ RcGet /\ UNCHANGED <<cubVars, waveVars, sup, ent, site, cow, ext, des>>
    \/ RcSetGet /\ UNCHANGED <<cubVars, waveVars, sup, ent, site, cow, ext, des>>

RuntimeSpec == RuntimeSpecInit /\ [][RuntimeNext]_vars

SerdeSpecInit ==
    /\ DesInit /\ WaveIdle /\ CubIdle /\ SupIdle /\ EntIdle /\ SiteIdle
    /\ CowIdle /\ ExtIdle /\ RcIdle

SerdeNext ==
    \/ DesConstruct /\ UNCHANGED <<cubVars, waveVars, sup, ent, site, cow, ext, rc>>
    \/ DesDeserialize /\ UNCHANGED <<cubVars, waveVars, sup, ent, site, cow, ext, rc>>

SerdeSpec == SerdeSpecInit /\ [][SerdeNext]_vars

-----------------------------------------------------------------------------
(* Claims about the wave and the collapse driver (Spec).                    *)

E == Env(geom, source, stamps)

Sites(c) ==
    LET q == Extent_iter(Cuboid_get_stamps_extent(geom.wave, geom.stamp, c))
    IN  {q[k] : k \in DOMAIN q}

StampCells == {delinearize(geom.stamp, i) : i \in 0..(ShapeSize(geom.stamp) - 1)}

\* the stamps of the collection that fit the window of c at o
Fitting(c, o) == {k \in DOMAIN stamps : ViewStamp_allows(E, c, o, stamps[k].stamp)}

\* the windows that contain cell i
WindowsOf(c, i) == {o \in Sites(c) : \E j \in StampCells : IndexAdd(o, j) = i}

\* every cell of the window at o is only(t[j]) for each fitting stamp t
Applied(c, o) ==
    \A k \in Fitting(c, o) :
        \A j \in StampCells :
            Naive_get(E, c, IndexAdd(o, j)) =
                only(PaletteSize, Stamp_get(E, stamps[k].stamp, j))

Changed == {i \in WaveCells(geom) : Naive_get(E, wave, i) # Naive_get(E, wavePrev, i)}

Bits(m) == Cardinality({k \in 0..(MaskBits - 1) : BitOf(m, k) = 1})

RECURSIVE SumBits(_, _)
SumBits(c, n) == IF n = 0 THEN 0 ELSE Bits(c.data[n]) + SumBits(c, n - 1)

(* Scenario S5 (test cllapse_one) on the Flat geometry: on a FREE wave,     *)
(* set((0,1,0), only(1)), then set((0,2,0), only(0)).                       *)
S5Free == Cuboid_new(Flat.wave, Flat.offset, FREE)

S5Corner == IndexSub(Flat.wave, Ones)

S5FirstSet ==
    /\ geom = Flat
    /\ source = S5Source
    /\ last.op = "set"
    /\ last.index = <<0, 1, 0>>
    /\ last.value = only(PaletteSize, 1)
    /\ wavePrev = S5Free

S5SecondSet ==
    /\ geom = Flat
    /\ source = S5Source
    /\ last.op = "set"
    /\ last.index = <<0, 2, 0>>
    /\ last.value = only(PaletteSize, 0)
    /\ sets = 2
    /\ wavePrev = Naive_set(E, Thread(S5Free), <<0, 1, 0>>, only(PaletteSize, 1)).c

\* C3: after Naive::set or Naive::new returns, every window of the
\* stamps-extent at which exactly one stamp fits has been applied: each of
\* its cells o+j equals only(t[j]). In S5 the first set leaves (0,0,0) at
\* only(1) and the second leaves (0,3,0) and the far corner at only(0).
C3_Quiescence ==
    /\ last.op \in {"new", "set"} =>
          \A o \in Sites(wave) : Cardinality(Fitting(wave, o)) = 1 => Applied(wave, o)
    /\ S5FirstSet => Naive_get(E, wave, <<0, 0, 0>>) = only(PaletteSize, 1)
    /\ S5SecondSet =>
          /\ Naive_get(E, wave, <<0, 3, 0>>) = only(PaletteSize, 0)
          /\ Naive_get(E, wave, S5Corner) = only(PaletteSize, 0)

\* the second set of S5 has returned: its propagation wrote the cells of
\* the last two rows, and every window is forced
C3_Witness ==
    /\ S5SecondSet
    /\ last.n >= 4
    /\ Naive_get(E, wave, S5Corner) = only(PaletteSize, 0)
    /\ \A o \in Sites(wave) : Cardinality(Fitting(wave, o)) = 1

OpenSites(c) == {o \in Sites(c) : Cardinality(Fitting(c, o)) >= 2}

C7_Monovariant ==
    /\ last.mono
    /\ last.op = "step" =>
          /\ \A i \in WaveCells(geom) :
                MaskSubset(Naive_get(E, wavePrev, i), Naive_get(E, wave, i))
          /\ SumBits(wave, Cells(geom)) >= SumBits(wavePrev, Cells(geom))

\* C8: from the same template and the same seed wave, the driver run to its
\* stop leaves the same wave whatever the order in which gather_stamps
\* delivered the stamps.
C8_Determinism ==
    steps = 0 =>
        \A q \in Orderings({stamps[k] : k \in DOMAIN stamps}) :
            run_driver(Env(geom, source, q), wave, Cells(geom) * PaletteSize) =
                run_driver(E, wave, Cells(geom) * PaletteSize)

\* C9: when the driver stops, every site of the stamps-extent admits one
\* stamp or none; and a step is made only at a site that admitted two or
\* more stamps, never at a contradicted one.
C9_StopsWithNoOpenSite ==
    /\ last.op = "stopped" =>
          \A o \in Sites(wave) : Cardinality(Fitting(wave, o)) <= 1
    /\ last.op = "step" => Cardinality(Fitting(wavePrev, last.index)) >= 2

\* the driver stopped after a stamp choice, with a contradicted site left
C9_Witness ==
    /\ last.op = "stopped"
    /\ steps >= 1
    /\ \E o \in Sites(wave) : Fitting(wave, o) = {}
    /\ \E o \in Sites(wave) : Cardinality(Fitting(wave, o)) = 1

S6SecondSet ==
    /\ geom = Flat
    /\ source = S5Source
    /\ last.op = "set"
    /\ last.index = <<0, 1, 0>>
    /\ last.value = only(PaletteSize, 0)
    /\ sets = 2
    /\ wavePrev = Naive_set(E, Thread(S5Free), <<0, 2, 0>>, only(PaletteSize, 1)).c

\* the set call wrote cell i and left every window that contains i with
\* no fitting stamp
SetContradicted ==
    /\ last.op = "set"
    /\ last.index \in WaveCells(geom)
    /\ \A o \in WindowsOf(wave, last.index) : Fitting(wave, o) = {}

\* C19: when Naive::set(i, s) leaves every window that contains i with no
\* fitting stamp, the call returns Ok, does not panic, and changes no cell
\* other than i. In S6 the second set leaves (0,3,0) and the far corner FREE.
C19_ContradictionSkipped ==
    /\ SetContradicted =>
          /\ last.res = "Ok"
          /\ ~last.panic
          /\ Changed \subseteq {last.index}
    /\ S6SecondSet =>
          /\ last.res = "Ok"
          /\ ~last.panic
          /\ Naive_get(E, wave, <<0, 3, 0>>) = FREE
          /\ Naive_get(E, wave, S5Corner) = FREE

\* the second set of S6 has returned: the rows below were forced to id 1
\* by the first set, the cell written contradicts both its windows, and
\* nothing else changed
C19_Witness ==
    /\ S6SecondSet
    /\ SetContradicted
    /\ last.n = 1
    /\ Naive_get(E, wavePrev, <<0, 0, 0>>) = only(PaletteSize, 1)
    /\ Changed = {<<0, 1, 0>>}

-----------------------------------------------------------------------------
(* Claims about limit_stamp (LimitSpec).                                    *)

\* the cells o+j of the window at o
WindowCells(o) == {IndexAdd(o, j) : j \in StampCells}

\* C20: limit_stamp(o, stamp) returns Ok and leaves every cell
\* o+j at only(stamp[j]) when the window lies inside the wave; it returns
\* OutOfBounds iff some o+j lies outside; and no unwrap in collapse panics.
C20_LimitStamp ==
    /\ ~last.panic
    /\ last.op = "limit_stamp" =>
          /\ WindowCells(last.index) \subseteq WaveCells(geom) =>
                /\ last.res = "Ok"
                /\ \A j \in StampCells :
                      Naive_get(E, wave, IndexAdd(last.index, j)) =
                          only(geom.D, Stamp_get(E, last.stamp, j))
          /\ last.res = "OutOfBounds" <=>
                ~(WindowCells(last.index) \subseteq WaveCells(geom))

\* the cells of the wave by their position in its buffer
CellPositions == 1..ShapeSize(geom.wave)

\* the complete assignments of ids of the palette to the cells of the wave
Assignments == [CellPositions -> 0..(geom.D - 1)]

StampPositions == 0..(ShapeSize(geom.stamp) - 1)

\* the voxels of the stamps of the collection
StampContents ==
    {[i \in StampPositions |-> Stamp_get(E, stamps[k].stamp, delinearize(geom.stamp, i))] :
        k \in DOMAIN stamps}

\* the stamp windows of the wave: the buffer positions of their cells
WindowPositions ==
    {[i \in StampPositions |->
         linearize(geom.wave,
                   IndexSub(IndexAdd(o, delinearize(geom.stamp, i)), geom.offset)) + 1] :
        o \in Sites(wave)}

\* the wave right after the write of set, before the propagation
AfterWrite ==
    IF last.index \in WaveCells(geom)
    THEN Cuboid_set(geom.wave, wavePrev, last.index, last.value).c
    ELSE wavePrev

\* C29: propagation is sound. Every complete assignment whose windows are
\* all content-equal to stamps of the collection and that the wave allows
\* cell by cell right after the write of set(i, s) is still allowed by the
\* wave when set returns.
C29_PropagationSound ==
    last.op = "set" =>
        LET before == AfterWrite.data
            after == wave.data
            contents == StampContents
            windows == WindowPositions
        IN  \A a \in Assignments :
                /\ \A n \in CellPositions : allows(before[n], a[n])
                /\ \A w \in windows : [i \in StampPositions |-> a[w[i]]] \in contents
                => \A n \in CellPositions : allows(after[n], a[n])

\* a set with the palette of the scene whose propagation wrote other cells
\* while two or more valid completions were allowed after the write
C29_Witness ==
    /\ last.op = "set"
    /\ last.n >= 3
    /\ geom.D = ScenePalette
    /\ wave # AfterWrite
    /\ LET before == AfterWrite.data
           contents == StampContents
           windows == WindowPositions
       IN  Cardinality(
               {a \in Assignments :
                   /\ \A n \in CellPositions : allows(before[n], a[n])
                   /\ \A w \in windows :
                         [i \in StampPositions |-> a[w[i]]] \in contents}) >= 2

\* C27: set(i, s) with i outside the wave returns OutOfBounds for every
\* superposition s, FREE included, and leaves the wave as it was.
C27_SetOutside ==
    last.op = "set" /\ last.index \notin WaveCells(geom) =>
        /\ last.res = "OutOfBounds"
        /\ wave = wavePrev

\* C21: limit(i, s) is an intersection: after the call the cell at i
\* forbids every id it forbade before and every id that s forbids, so limit
\* never re-allows an id that was forbidden at i.
C21_LimitIntersects ==
    last.op = "limit" /\ last.index \in WaveCells(geom) =>
        /\ MaskSubset(Naive_get(E, wavePrev, last.index),
                      Naive_get(E, wave, last.index))
        /\ MaskSubset(last.value, Naive_get(E, wave, last.index))

-----------------------------------------------------------------------------
(* Claims about the dense cuboid (CuboidSpec).                              *)

Inside(c, index) ==
    \A a \in 1..3 : c.offset[a] <= index[a] /\ index[a] < c.offset[a] + CubShape[a]

\* C1: for an index inside [offset, offset+dims), set returns Ok, and after
\* any sequence of set calls get(i) is the value last written at i by a
\* successful set (so a set changes no other index), or the default value
\* if i was never written.
C1_SetThenGet ==
    /\ (cubRes # "none" /\ Inside(cub, cubOp.index)) => cubRes = "Ok"
    /\ \A i \in CubCells(cub) :
          Cuboid_get(CubShape, cub, i, CubDefault) =
              IF i \in DOMAIN cubWritten THEN cubWritten[i] ELSE CubDefault
    /\ (cubRes = "Ok" =>
          /\ Cuboid_get(CubShape, cub, cubOp.index, CubDefault) = cubOp.value
          /\ \A j \in CubCells(cub) \ {cubOp.index} :
                Cuboid_get(CubShape, cub, j, CubDefault) =
                    Cuboid_get(CubShape, cubPrev, j, CubDefault))

\* two cells hold written values, one of them overwritten, at a negative offset
C1_Witness ==
    /\ cubCalls = MaxCubCalls
    /\ cubRes = "Ok"
    /\ cub.offset[2] < 0
    /\ cubOp.value # CubDefault
    /\ \E j \in DOMAIN cubWritten : j # cubOp.index /\ cubWritten[j] # CubDefault

\* C2: for an index outside [offset, offset+dims), get returns the default
\* value, and set returns OutOfBounds and leaves the cuboid as it was.
C2_OutsideExtent ==
    /\ \A i \in CubIndices(cub) :
          ~Inside(cub, i) => Cuboid_get(CubShape, cub, i, CubDefault) = CubDefault
    /\ (cubRes # "none" /\ ~Inside(cub, cubOp.index)) =>
          /\ cubRes = "OutOfBounds"
          /\ cub = cubPrev

\* a set beyond the extent after a cell was written, at a negative offset
C2_Witness ==
    /\ cubRes = "OutOfBounds"
    /\ cub.offset[1] < 0
    /\ cubOp.index[1] < cub.offset[1]
    /\ cubOp.value # CubDefault
    /\ \E j \in DOMAIN cubWritten : cubWritten[j] # CubDefault

-----------------------------------------------------------------------------
(* Claims about Superposition<D> (SuperSpec).                               *)

\* the ids below D
Ids(D) == 0..(D - 1)

\* the ids whose bit is set in m, among the 64 bits of the mask
Forbidden(m) == {k \in 0..(MaxPalette - 1) : BitOf(m, k) = 1}

\* C16: for every palette size D in 1..64 and id v < D, FREE.allows(v) is
\* true, only(v).count_allowed() is 1 and impossible().count_allowed() is 0,
\* neither subtraction overflowing.
C16_CountAllowed ==
    sup.done =>
        /\ sup.free_allows
        /\ ~sup.only_count.panic
        /\ sup.only_count.value = 1
        /\ ~sup.impossible_count.panic
        /\ sup.impossible_count.value = 0

\* C17: for every palette size D in 1..64 and ids v, w < D, impossible()
\* has exactly the bits 0..D-1 set, and only(v).allows(w) holds iff w = v.
C17_LowBits ==
    sup.done =>
        /\ Forbidden(sup.impossible) = Ids(sup.D)
        /\ sup.only_allows <=> (sup.w = sup.v)

-----------------------------------------------------------------------------
(* Claims about get_pseudo_entropy (EntropySpec).                           *)

\* the weights of a list are all c
AllEqual(weights, c) == \A i \in DOMAIN weights : weights[i] = c

\* floor(log2 v) stated by its bounds: 2^l <= v < 2^(l+1)
FloorLog2(v) == CHOOSE l \in 0..30 : Pow2(l) <= v /\ v < 2 * Pow2(l)

\* the pair scores k and k+1 stamps of n >= 2 stamps of equal count c
EqualCase ==
    /\ ent.done
    /\ Len(ent.second) = Len(ent.first) + 1
    /\ \E c \in 1..ent.total :
          /\ AllEqual(ent.first, c)
          /\ AllEqual(ent.second, c)
          /\ \E n \in 2..ent.total : ent.total = n * c /\ Len(ent.second) <= n

\* C13: with n >= 2 stamps of one occurrence count c and W = n * c, the
\* pseudo-entropy of k+1 admitted stamps is strictly higher than that of k
\* (k >= 1), both against W; so for (1,1,1) against (1,1) with W = 3.
C13_MoreOptionsHigher ==
    EqualCase => EntropyLess(ent.pe_first, ent.pe_second)

\* the test pseudo_entropy_equal, and a pair of larger equal counts where
\* the total is not a power of two
C13_Witness ==
    /\ EqualCase
    /\ \/ ent.first = <<1, 1>> /\ ent.second = <<1, 1, 1>> /\ ent.total = 3
       \/ ent.first = <<7, 7, 7>> /\ ent.total = 35
    /\ ent.pe_second.num > ent.pe_first.num
    /\ ent.pe_first.num > 0

\* the pair scores (a, W-a) first and (b, W-b) second, a > b >= W-b
SkewCase ==
    /\ ent.done
    /\ Len(ent.first) = 2
    /\ Len(ent.second) = 2
    /\ ent.first[1] + ent.first[2] = ent.total
    /\ ent.second[1] + ent.second[2] = ent.total
    /\ ent.first[1] > ent.second[1]
    /\ ent.second[1] >= ent.second[2]

\* C14 as stated: for all positive weights (a, W-a) and (b, W-b) with
\* a > b >= W-b, the less skewed (b, W-b) scores strictly higher.
C14_LessSkewedHigher ==
    SkewCase => EntropyLess(ent.pe_first, ent.pe_second)

\* a and b lie between the same powers of two, so do W-a and W-b, and the
\* larger weights lie above the smaller ones' power of two
SameOrders ==
    /\ FloorLog2(ent.first[1]) = FloorLog2(ent.second[1])
    /\ FloorLog2(ent.first[2]) = FloorLog2(ent.second[2])
    /\ FloorLog2(ent.second[1]) > FloorLog2(ent.second[2])

\* C14, amended: the less skewed (b, W-b) scores strictly higher than
\* (a, W-a), a > b >= W-b, when floor(log2 a) = floor(log2 b),
\* floor(log2(W-a)) = floor(log2(W-b)) and floor(log2 b) > floor(log2(W-b)),
\* and for the tested pair [30000,2] against [30001,1].
C14_LessSkewedWithinOrders ==
    /\ (SkewCase /\ SameOrders) => EntropyLess(ent.pe_first, ent.pe_second)
    /\ (SkewCase /\ ent.first = <<30001, 1>> /\ ent.second = <<30000, 2>>) =>
          EntropyLess(ent.pe_first, ent.pe_second)

\* entropy_precision2 has been scored: 5005 against 5010
C14_Witness ==
    /\ SkewCase
    /\ SameOrders
    /\ ent.first = <<30001, 1001>>
    /\ ent.second = <<30000, 1002>>
    /\ ent.pe_first.num = 5005
    /\ ent.pe_second.num = 5010

-----------------------------------------------------------------------------
(* Claims about gather_stamps (GatherSpec).                                 *)

\* the offsets o whose window [o, o + StampShape) lies inside the template
InsideOffsets ==
    {o \in {IndexAdd(source.offset, delinearize(geom.src, n)) :
                n \in 0..(ShapeSize(geom.src) - 1)} :
        \A a \in 1..3 : o[a] + geom.stamp[a] <= source.offset[a] + geom.src[a]}

\* the voxels of the window of the template at o
Content(o) ==
    [j \in StampCells |-> Cuboid_get(geom.src, source, IndexAdd(o, j), 0)]

\* product over the axes of (dims - D + 1)
WindowCount ==
    (geom.src[1] - geom.stamp[1] + 1) * (geom.src[2] - geom.stamp[2] + 1)
        * (geom.src[3] - geom.stamp[3] + 1)

Uniform == \A n \in DOMAIN source.data : source.data[n] = source.data[1]

\* C18: gather_stamps returns pairwise content-distinct stamps, each with
\* the number of inside offsets whose window has its content as count; the
\* counts are positive and sum to the product of (dims - D + 1). A uniform
\* template gives one stamp with that product as count (343 for 8x8x8 with
\* 2x2x2); the template split at y < 2 gives 3 stamps of count 9.
C18_GatherCounts ==
    last.op = "gather" =>
        /\ \A k, m \in DOMAIN stamps :
              k # m => Content(stamps[k].stamp) # Content(stamps[m].stamp)
        /\ \A k \in DOMAIN stamps :
              /\ stamps[k].stamp \in InsideOffsets
              /\ stamps[k].count =
                    Cardinality({o \in InsideOffsets :
                                    Content(o) = Content(stamps[k].stamp)})
              /\ stamps[k].count > 0
        /\ \A o \in InsideOffsets :
              \E k \in DOMAIN stamps : Content(stamps[k].stamp) = Content(o)
        /\ get_total_occurrences(stamps) = WindowCount
        /\ Uniform => Len(stamps) = 1 /\ stamps[1].count = WindowCount
        /\ geom = GatherS1 => stamps[1].count = 343
        /\ geom = GatherS2 =>
              /\ Len(stamps) = 3
              /\ \A k \in DOMAIN stamps : stamps[k].count = 9

\* the collection of stamps2 has been gathered: 27 windows in 3 stamps
C18_Witness ==
    /\ last.op = "gather"
    /\ geom = GatherS2
    /\ Len(stamps) = 3
    /\ get_total_occurrences(stamps) = 27
    /\ \E k \in DOMAIN stamps :
          /\ Content(stamps[k].stamp)[<<0, 0, 0>>] = 1
          /\ Content(stamps[k].stamp)[<<0, 1, 0>>] = 0

-----------------------------------------------------------------------------
(* Claims about the site queries (SiteSpec).                                *)

\* stamp t fits the window of c at o: at every position j of the stamp
\* shape the bit of the voxel t[j] is clear in the cell o+j
Fits(c, o, t) ==
    \A j \in StampCells :
        BitOf(Cuboid_get(geom.wave, c, IndexAdd(o, j), FREE),
              Cuboid_get(geom.src, source, IndexAdd(t, j), 0)) = 0

FitSet(c, o) == {k \in DOMAIN stamps : Fits(c, o, stamps[k].stamp)}

RECURSIVE TotalCount(_)
TotalCount(k) == IF k = 0 THEN 0 ELSE stamps[k].count + TotalCount(k - 1)

\* sum over the stamps 1..k that fit c at o of
\* count * (floor(log2 W) - floor(log2 count))
RECURSIVE FitSum(_, _, _, _)
FitSum(c, o, W, k) ==
    IF k = 0 THEN 0
    ELSE FitSum(c, o, W, k - 1) +
         IF Fits(c, o, stamps[k].stamp)
         THEN stamps[k].count * (FloorLog2(W) - FloorLog2(stamps[k].count))
         ELSE 0

\* the pseudo-entropy numerator of the site o, against the whole collection
SiteSum(c, o) == FitSum(c, o, TotalCount(Len(stamps)), Len(stamps))

OpenOffsets(c) == {o \in Sites(c) : Cardinality(FitSet(c, o)) >= 2}

\* a comes no later than b in row-major order, x fastest
RowMajorLE(a, b) ==
    \/ a[3] < b[3]
    \/ a[3] = b[3] /\ a[2] < b[2]
    \/ a[3] = b[3] /\ a[2] = b[2] /\ a[1] <= b[1]

\* S3 on the Flat geometry: the split template, the corner only(1)
S3Wave ==
    /\ geom = Flat
    /\ source = S5Source
    /\ wave = Cuboid_set(Flat.wave, S5Free, <<0, 0, 0>>, only(PaletteSize, 1)).c

\* S4 on the Column geometry: the split template, stamps two cells high,
\* only(1) at (0,0,0) and (0,1,0)
S4Wave ==
    /\ geom = Column
    /\ source.data = <<1, 1, 0, 0>>
    /\ wave.data = <<only(PaletteSize, 1), only(PaletteSize, 1), FREE, FREE>>

\* C11: find_lowest_pseudo_entropy returns None exactly when no offset of
\* the stamps-extent is Open; otherwise an Open offset of the smallest
\* pseudo-entropy, the first in row-major order among those; never a
\* Collapsed or Impossible one. S3 gives (0,0,0), S4 gives (0,1,0).
C11_LowestOpenSite ==
    site.scored =>
        /\ site.lowest.some <=> OpenOffsets(wave) # {}
        /\ site.lowest.some =>
              /\ site.lowest.index \in OpenOffsets(wave)
              /\ \A o \in OpenOffsets(wave) :
                    /\ SiteSum(wave, site.lowest.index) <= SiteSum(wave, o)
                    /\ SiteSum(wave, o) = SiteSum(wave, site.lowest.index)
                          => RowMajorLE(site.lowest.index, o)
        /\ S3Wave => site.lowest.some /\ site.lowest.index = <<0, 0, 0>>
        /\ S4Wave => site.lowest.some /\ site.lowest.index = <<0, 1, 0>>

\* the lowest site is neither the first site nor the first Open one on its
\* row, and another Open site ties with it later in row-major order
C11_Witness ==
    /\ site.scored
    /\ geom = Grid
    /\ site.lowest.some
    /\ site.lowest.index = <<1, 0, 0>>
    /\ <<0, 0, 0>> \in OpenOffsets(wave)
    /\ <<0, 1, 0>> \in OpenOffsets(wave)
    /\ SiteSum(wave, <<0, 1, 0>>) = SiteSum(wave, <<1, 0, 0>>)
    /\ \E o \in Sites(wave) : Cardinality(FitSet(wave, o)) <= 1

MaxBit == 29

\* C12: get_superposition_pseudo_entropy is Impossible when no stamp fits
\* the site, Collapsed when one fits, and Open(H) when two or more fit,
\* with H = (sum over the fitting stamps of
\* c * (floor(log2 W) - floor(log2 c))) / W, W the total count of the whole
\* collection; and log2(1 << i) = i for every bit position i.
C12_Classification ==
    /\ site.scored =>
          \A k \in DOMAIN site.H :
              LET o == site.H[k].index
                  h == site.H[k].entropy
                  n == Cardinality(FitSet(wave, o))
              IN  /\ h.kind = "Impossible" <=> n = 0
                  /\ h.kind = "Collapsed" <=> n = 1
                  /\ h.kind = "Open" <=> n >= 2
                  /\ h.kind = "Open" =>
                        /\ h.den = TotalCount(Len(stamps))
                        /\ h.num = SiteSum(wave, o)
    /\ \A i \in 0..MaxBit : log2(Pow2(i)) = i

\* a scored wave with an Impossible, a Collapsed and an Open site, the Open
\* one admitting fewer stamps than the collection holds
C12_Witness ==
    /\ site.scored
    /\ \E k \in DOMAIN site.H : site.H[k].entropy.kind = "Impossible"
    /\ \E k \in DOMAIN site.H : site.H[k].entropy.kind = "Collapsed"
    /\ \E k \in DOMAIN site.H :
          /\ site.H[k].entropy.kind = "Open"
          /\ site.H[k].entropy.num > 0
          /\ Cardinality(FitSet(wave, site.H[k].index)) < Len(stamps)

\* C15: get_collapse_outcomes is None when no stamp of the collection fits
\* the view, One(t) with t the only fitting stamp when one fits, Multiple
\* when two or more fit; and the same in whatever order the collection
\* holds the stamps.
C15_CollapseOutcomes ==
    site.classified =>
        \A k \in DOMAIN site.outcomes :
            LET o == site.outcomes[k].index
                out == site.outcomes[k].outcome
                fit == FitSet(wave, o)
            IN  /\ out.kind = "None" <=> fit = {}
                /\ out.kind = "One" <=> Cardinality(fit) = 1
                /\ out.kind = "Multiple" <=> Cardinality(fit) >= 2
                /\ out.kind = "One" => \E m \in fit : stamps[m].stamp = out.stamp
                /\ \A q \in Orderings({stamps[m] : m \in DOMAIN stamps}) :
                      get_collapse_outcomes(Env(geom, source, q), wave, o) = out

\* a classified wave with all three outcomes, the One at a site whose
\* fitting stamp is the last of a collection of three
C15_Witness ==
    /\ site.classified
    /\ Len(stamps) = 3
    /\ \E k \in DOMAIN site.outcomes : site.outcomes[k].outcome.kind = "None"
    /\ \E k \in DOMAIN site.outcomes : site.outcomes[k].outcome.kind = "Multiple"
    /\ \E k \in DOMAIN site.outcomes :
          /\ site.outcomes[k].outcome.kind = "One"
          /\ site.outcomes[k].outcome.stamp = stamps[3].stamp

-----------------------------------------------------------------------------
(* Claims about chunk indices and the Cow (CowSpec).                        *)

\* C25: the chunk of an index is, on each axis, the multiple of 16 at or
\* below the coordinate (rounding toward minus infinity: (-1,-1,-1) lies in
\* the chunk at (-16,-16,-16)), and the internal offset is the index minus
\* the chunk's offset, with every component in [0, 16).
C25_ChunkFloor ==
    cow.op = "set" =>
        /\ \A k \in 1..3 :
              /\ \E q \in -2..2 : cow.ci[k] = q * ChunkEdge
              /\ cow.ci[k] <= cow.index[k]
              /\ cow.index[k] < cow.ci[k] + ChunkEdge
              /\ cow.io[k] = cow.index[k] - cow.ci[k]
              /\ cow.io[k] \in 0..(ChunkEdge - 1)
        /\ cow.index = <<-1, -1, -1>> => cow.ci = <<-16, -16, -16>>

\* a set at a negative index that is not at the start of its chunk
C25_Witness ==
    /\ cow.op = "set"
    /\ cow.index = <<-17, -1, 0>>
    /\ cow.ci = <<-32, -16, 0>>
    /\ cow.io = <<15, 15, 0>>

\* C22: after any sequence of Cow.set calls get(i) is the last value
\* written at i, or the base world's voxel if i was never written, and the
\* base world is as it was.
C22_CowOverlay ==
    /\ cow.c.base = cow.B
    /\ \A i \in CowIndices :
          Cow_get(cow.c, i) =
              IF i \in DOMAIN cow.written THEN cow.written[i]
              ELSE World_get(cow.B, i)

\* two writes, one at a negative index into a chunk of the base world that
\* holds other voxels, which still read as in the base
C22_Witness ==
    /\ cow.op = "set"
    /\ cow.calls = 2
    /\ cow.B = TwoChunks
    /\ DOMAIN cow.written = {<<-1, -1, -1>>, <<16, 0, 0>>}
    /\ cow.written[<<-1, -1, -1>>] = 1
    /\ Cow_get(cow.c, <<-16, -1, -1>>) = BaseVoxel
    /\ Cow_get(cow.c, <<-1, -1, -1>>) = 1
    /\ Cow_get(cow.c, <<16, 0, 0>>) = cow.written[<<16, 0, 0>>]

\* C23: after cow.into_changes().apply(world) on the world the Cow was
\* based on, world.get(i) is what cow.get(i) was before, and every chunk the
\* Cow never wrote is as before (present with the same voxels, or absent).
C23_ApplyMatchesCow ==
    cow.op = "apply" =>
        /\ \A i \in CowIndices : World_get(cow.world, i) = Cow_get(cow.c, i)
        /\ \A ci \in (DOMAIN cow.B \cup DOMAIN cow.world) \ DOMAIN cow.c.overlaid :
              /\ ci \in DOMAIN cow.B
              /\ ci \in DOMAIN cow.world
              /\ cow.world[ci] = cow.B[ci]

\* test cow_apply_neg: the empty world, one write of 1 at (-1,-1,-1)
C23_Witness ==
    /\ cow.op = "apply"
    /\ cow.B = World_default
    /\ DOMAIN cow.written = {<<-1, -1, -1>>}
    /\ cow.written[<<-1, -1, -1>>] = 1
    /\ World_get(cow.world, <<-1, -1, -1>>) = 1

\* changes applied to a world with a chunk the Cow never wrote
C23_WitnessUnwritten ==
    /\ cow.op = "apply"
    /\ cow.B = TwoChunks
    /\ DOMAIN cow.c.overlaid = {<<0, 0, 0>>}
    /\ World_get(cow.world, <<-1, -1, -1>>) = BaseVoxel

-----------------------------------------------------------------------------
(* Claims about Extent (ExtentSpec).                                        *)

Range(seq) == {seq[n] : n \in DOMAIN seq}

\* start below end on every axis, or both (0,0,0)
WellFormed(x) ==
    \/ \A k \in 1..3 : x.start[k] < x.end[k]
    \/ x.start = <<0, 0, 0>> /\ x.end = <<0, 0, 0>>

\* C24: A.intersection(B).iter() yields exactly the indices that both
\* A.iter() and B.iter() yield, each once, nothing when A and B are disjoint;
\* and the extents made by Extent::new and by intersection have start below
\* end on every axis or are (0,0,0)..(0,0,0).
C24_Intersection ==
    /\ WellFormed(ext.A) /\ WellFormed(ext.B) /\ WellFormed(ext.r)
    /\ ext.op = "intersection" =>
          /\ Range(ext.items) = Range(ext.itemsA) \cap Range(ext.itemsB)
          /\ Cardinality(Range(ext.items)) = Len(ext.items)
          /\ Range(ext.itemsA) \cap Range(ext.itemsB) = {} => ext.items = <<>>

\* two extents with negative corners that overlap in two indices, neither
\* inside the other
C24_Witness ==
    /\ ext.op = "intersection"
    /\ ext.A = [start |-> <<-2, -1, -1>>, end |-> <<1, 1, 1>>]
    /\ ext.B = [start |-> <<-1, 0, 0>>, end |-> <<2, 1, 1>>]
    /\ ext.items = << <<-1, 0, 0>>, <<0, 0, 0>> >>

\* two extents that are not empty and share no index
C24_WitnessDisjoint ==
    /\ ext.op = "intersection"
    /\ ext.itemsA # <<>>
    /\ ext.itemsB # <<>>
    /\ ext.items = <<>>

\* the window of shape D at offset o lies inside the extent x
WindowFits(x, D, o) ==
    \A k \in 1..3 : x.start[k] <= o[k] /\ o[k] + D[k] <= x.end[k]

\* the offsets whose windows of shape D contain index i
OffsetsAround(D, i) ==
    {<<ox, oy, oz>> : ox \in (i[1] - D[1] + 1)..i[1],
                      oy \in (i[2] - D[2] + 1)..i[2],
                      oz \in (i[3] - D[3] + 1)..i[3]}

\* C28: get_stamps_containing(i) iterates exactly the offsets o whose window
\* [o, o+D) lies inside the extent and contains i, each once; it is empty
\* only when there is no such window, and it has i itself whenever the
\* window at i lies inside the extent.
C28_StampsContaining ==
    ext.op = "containing" =>
        LET expected == {o \in OffsetsAround(ext.stampShape, ext.index) :
                            WindowFits(ext.A, ext.stampShape, o)}
        IN  /\ Range(ext.items) = expected
            /\ Cardinality(expected) = Len(ext.items)
            /\ ext.items = <<>> => expected = {}
            /\ WindowFits(ext.A, ext.stampShape, ext.index) =>
                  ext.index \in Range(ext.items)

\* test containing: the 2x2x2 windows of the extent (0,0,0)..(5,5,5) around
\* (2,2,2) are all eight, the one at (2,2,2) among them
C28_Witness ==
    /\ ext.op = "containing"
    /\ ext.A = [start |-> <<0, 0, 0>>, end |-> <<5, 5, 5>>]
    /\ ext.stampShape = <<2, 2, 2>>
    /\ ext.index = <<2, 2, 2>>
    /\ Len(ext.items) = 8
    /\ <<2, 2, 2>> \in Range(ext.items)

\* an index at the far corner of the extent: one window, clamped away from
\* the index itself
C28_WitnessClamped ==
    /\ ext.op = "containing"
    /\ ext.A = [start |-> <<0, 0, 0>>, end |-> <<5, 5, 5>>]
    /\ ext.stampShape = <<2, 2, 2>>
    /\ ext.index = <<4, 4, 4>>
    /\ ext.items = << <<3, 3, 3>> >>

-----------------------------------------------------------------------------
(* Claims about the cuboid with run-time dimensions (RuntimeSpec).          *)

\* the indices of [offset, offset + dims)
RcInside(c) ==
    {i \in RcIndices :
        \A k \in 1..3 : c.offset[k] <= i[k] /\ i[k] < c.offset[k] + c.dimensions[k]}

\* C30: for the cuboid built by new_from_space(space, offset, dims), any
\* offset, get(i) is space.get(i) for every i in [offset, offset + dims),
\* and set(i, v) followed by get(i) returns v.
C30_RuntimeCuboid ==
    rc.index \in RcInside(rc.c) =>
        /\ ~rc.panic
        /\ rc.op = "get" => rc.got = Space_get(SampledSpace, rc.index)
        /\ rc.op = "set" => rc.res = "Ok" /\ rc.got = RcValue

-----------------------------------------------------------------------------
(* Claims about the cuboid's constructors and deserialization (SerdeSpec).  *)

\* C26: every cuboid made by new, new_from_space, From<Space> or by a
\* successful deserialization has a buffer of exactly Shape::SIZE elements;
\* deserialization fails whenever the length of data differs from the
\* product of dimensions.
C26_BufferLength ==
    /\ des.res = "Ok" => Len(des.c.data) = ShapeSize(des.shape)
    /\ des.op = "deserialize" /\ Len(des.ret.data) # ShapeSize(des.ret.dimensions) =>
          des.res = "Err"

=============================================================================
